---- MODULE Spec2Model ----
(***************************************************************************)
(* Verification model of agentkit: the tool-calling chat engine            *)
(* (agentkit/chatbots/chatbot.py), the tool manager and the MCP tool       *)
(* handler (agentkit/tools/manager.py, agentkit/tools/mcp_handler.py).     *)
(*                                                                         *)
(* The specifications share the module's variables; the first two are:     *)
(*   Spec        one run of Chatbot.chat                                   *)
(*   SpecRouter  start-up of the tool manager / MCP handler followed by    *)
(*               tool calls routed through it                              *)
(* The others are introduced with the part of the program they model.      *)
(* Each specification keeps the others' variables at their initial value.  *)
(***************************************************************************)
EXTENDS Integers, Sequences, FiniteSets, TLC

VARIABLES
    \* ---- Chatbot.chat ----
    pc,              \* position of the chat coroutine
    construction,    \* how the chatbot was created and with which max_iterations
    proposals,       \* the lists of tool names the model may propose in a reply
    system_prompt,   \* Chatbot.system_prompt ("" when none is configured)
    max_iterations,  \* Chatbot.max_iterations
    messages,        \* the local `messages` list of chat (the transcript)
    iteration,       \* number of loop iterations entered (= model calls made)
    reply,           \* `message`: the model's reply of the current iteration
    idx,             \* position in message["tool_calls"] of the next call
    all_tool_calls,  \* `all_tool_calls`
    result,          \* what chat returned
    raised,          \* the exception that left chat ("" when none)
    executed,        \* log: calls handed to tool_manager.call_tool, in order
    history,         \* log: the tool_calls of every reply that was executed
    \* ---- ToolManager / MCPToolHandler ----
    rpc,             \* position of start-up
    component,       \* which class runs: "ToolManager" or "MCPToolHandler"
    behaviour,       \* per configured server: where (if anywhere) it fails
    cur,             \* index of the server being initialized
    stage,           \* sub-step of the current server
    sessions,        \* _sessions
    server_registry, \* _server_registry / server_registry
    tool_registry,   \* _tool_registry / tool_registry
    smol_tools,      \* ToolManager._smol_tools (names of the built-in tools)
    attempted,       \* log: servers whose initialization was begun
    last_init_error, \* log: the exception of the last failed initialization
    last_call,       \* log: the last call_tool request and what became of it
    \* ---- shutdown and in-process handlers ----
    exit_stack,      \* _exit_stack: the contexts entered, oldest first
    agents,          \* AgentPluginHandler._agents / ToolManager._smol_agents
    toolset_tools,   \* ToolSetHandler._tools (names of the registered functions)
    web_client,      \* WebTools._client: "None", "open" or "closed"
    stop_log,        \* log: what the running or last stop / cleanup did
    stops,           \* number of stop / cleanup calls begun
    \* ---- concurrent requests after start-up ----
    conv,            \* per conversation: its request in flight or last result
    \* ---- agent plugin discovery ----
    plugin_servers,  \* per plugin in the agents directory: its `tool_servers`
    discovery,       \* the plugin files `glob` has still to yield, in its order
    agent_tools,     \* per loaded agent: the `tools` list its initialize built
    \* ---- a toolset function calling other tools ----
    toolset_manager, \* ToolSetHandler._tool_manager: "None" or "set"
    call_stack,      \* the toolset functions running, outermost first
    \* ---- LLMClient.chat_completion ----
    client,          \* which LLMClient serves the call: "openai" or "anthropic"
    api_messages,    \* the `messages` argument of the call in progress or last made
    request,         \* `api_params` handed to the backend ("none" fields before a call)
    response,        \* what the backend answered
    completion,      \* what chat_completion returned
    \* ---- the tools Chatbot.chat offers to the model ----
    configured,      \* the tool_servers list the chatbot was constructed with
    tool_servers,    \* Chatbot.tool_servers
    offer,           \* the tool set-up of the chat call in progress or last made
    \* ---- WebTools.web_search under a rate limit ----
    web_now,         \* time.time(), in ticks
    last_request_time, \* WebTools._last_request_time, in ticks
    searchers,       \* per caller of web_search: where it is, and when its sleep ends
    search_starts,   \* log: the times at which a search request was started
    \* ---- the pending files of a chat ----
    img_files,       \* FileHandler._img_files
    file_contents,   \* FileHandler._file_contents
    github_files,    \* FileHandler._github_files
    uploaded,        \* log: the paths the user uploaded and has not removed
    file_op,         \* log: the last operation on the pending files
    \* ---- ChatService: the stored history of a chat ----
    db_history,      \* the messages of the chat in the database, by sequence
    saved_count,     \* how many messages were ever saved for the chat
    sent,            \* the `messages` list handed to chatbot.chat by the last request
    to_model,        \* the list chat built from it for the first model call
    service_op,      \* log: the last request, its outcome, and the rows it sent
    \* ---- ToolManager: requests around stop ----
    request_log,     \* log: the last request to the tool manager and what it gave
    \* ---- Chatbot.chat: the caller's list ----
    argument,        \* the content of the list passed to chat, at the call
    \* ---- ChatServiceManager ----
    db_chats,        \* the chats of the database: chat id -> stored model (<<>> when none)
    chat_services,   \* ChatServiceManager._chat_services: chat id -> ChatService object
    instances,       \* how many ChatService objects were constructed
    got,             \* log: per chat id, the object get_service returned since the last remove
    manager_op,      \* log: the last call on the manager and how it ended
    \* ---- ChatService: file attachments ----
    attachments,     \* the attachment rows of the database: message id -> the paths attached
    \* ---- main entry point: shutdown ----
    main_pc,         \* position of the main module: serve, finally, exited
    frames,          \* the calls running above the main module, innermost last
    cleanup_state,   \* cleanup_state["done"]
    db_close,        \* database.close(): how often it was begun and completed
    mcp_close,       \* mcp_manager.close_all(): how often it was begun and completed
    signals,         \* the signals delivered so far
    \* ---- server lifespan ----
    lifespan_pc,     \* position of lifespan
    github_client,   \* whether lifespan holds a GitHub client
    lifespan_log,    \* the calls lifespan made on its resources, oldest first
    served           \* the requests served between start-up and shutdown

chatVars == <<pc, construction, proposals, system_prompt, max_iterations, messages,
              iteration, reply, idx,
              all_tool_calls, result, raised, executed, history>>
lifeVars == <<agents, toolset_tools, web_client, stop_log, stops, conv>>
pluginVars == <<plugin_servers, discovery, agent_tools>>
toolsetVars == <<toolset_manager, call_stack>>
adapterVars == <<client, api_messages, request, response, completion>>
offerVars == <<configured, tool_servers, offer>>
webVars == <<web_now, last_request_time, searchers, search_starts>>
fileVars == <<img_files, file_contents, github_files, uploaded, file_op>>
serviceVars == <<db_history, saved_count, sent, to_model, service_op>>
stoppedVars == <<request_log>>
callerVars == <<argument>>
managerVars == <<db_chats, chat_services, instances, got, manager_op>>
attachVars == <<attachments>>
mainVars == <<main_pc, frames, cleanup_state, db_close, mcp_close, signals>>
lifespanVars == <<lifespan_pc, github_client, lifespan_log, served>>
extVars == <<pluginVars, toolsetVars, adapterVars, offerVars, webVars, fileVars, serviceVars, stoppedVars, callerVars, managerVars, attachVars, mainVars, lifespanVars>>
routerVars == <<rpc, component, behaviour, cur, stage, sessions, server_registry,
                tool_registry, smol_tools, attempted, last_init_error, last_call,
                exit_stack, lifeVars, extVars>>
vars == <<chatVars, routerVars>>

(***************************************************************************)
(* Bounds                                                                  *)
(***************************************************************************)
MaxIterations == 2   \* largest max_iterations a chatbot is configured with
MaxCalls == 2        \* largest number of tool calls in one model reply
MaxServers == 2      \* number of configured MCP servers
MaxAgents == 2       \* number of agent plugins in the agents directory
MaxStops == 2        \* largest number of stop / cleanup calls on one object

SeqsUpTo(S, n) == UNION {[1..k -> S] : k \in 0..n}

(***************************************************************************)
(* Chatbot.chat                                                            *)
(***************************************************************************)
\* Tool identifiers the model may propose: a plain tool, a tool flagged
\* require_approval, and one the tool manager has no definition for.
ToolNames == {"files__read", "files__delete", "ghost__x"}

NoDefinition == [exists |-> FALSE, require_approval |-> FALSE]

ToolDefinitions ==
    [n \in {"files__read", "files__delete"} |->
        [exists |-> TRUE, require_approval |-> (n = "files__delete")]]

\* ToolManager.get_tool_definition: the definition of an identifier, or None.
get_tool_definition(tool_name) ==
    IF tool_name \in DOMAIN ToolDefinitions
    THEN ToolDefinitions[tool_name]
    ELSE NoDefinition

RECURSIVE approvals_scan(_, _)
approvals_scan(tool_calls, i) ==
    IF i > Len(tool_calls) THEN FALSE
    ELSE LET tool_def == get_tool_definition(tool_calls[i].name)
         IN  IF tool_def.exists /\ tool_def.require_approval
             THEN TRUE
             ELSE approvals_scan(tool_calls, i + 1)

\* A slip: only the first proposed call is looked at.
check_first_call_only(tool_calls) ==
    /\ Len(tool_calls) > 0
    /\ get_tool_definition(tool_calls[1].name).exists
    /\ get_tool_definition(tool_calls[1].name).require_approval

\* Chatbot.check_tool_approvals_needed
check_tool_approvals_needed(tool_calls) == approvals_scan(tool_calls, 1)

\* A slip: an empty tool_calls list is not treated as "no tool calls".
only_absent_is_final(message) == ~message.present

\* chat, line 152: `not message.get("tool_calls") or len(...) == 0`
has_no_tool_calls(message) ==
    (~message.present) \/ Len(message.tool_calls) = 0

\* A slip: one iteration too many.
loop_off_by_one(done, n) == done <= n

\* chat, line 140: `for _ in range(self.max_iterations)` has another iteration
\* after `done` iterations were completed.
loop_has_next(done, n) == done < n

NoMessage == [role |-> "none", content |-> "", tool_call_id |-> 0, tool_calls |-> <<>>]

Msg(role, content) ==
    [role |-> role, content |-> content, tool_call_id |-> 0, tool_calls |-> <<>>]

\* chat, lines 168-174
assistant_message(message) ==
    [role |-> "assistant", content |-> message.content, tool_call_id |-> 0,
     tool_calls |-> message.tool_calls]

\* A slip: the tool message does not carry the id of its call.
tool_message_without_id(tool_call, content) ==
    [role |-> "tool", content |-> content, tool_call_id |-> 0, tool_calls |-> <<>>]

\* chat, lines 198-204
tool_message(tool_call, content) ==
    [role |-> "tool", content |-> content, tool_call_id |-> tool_call.id,
     tool_calls |-> <<>>]

\* The arguments of a tool call as the provider sends them: JSON text, or
\* an object (a list of key / value pairs) already decoded.
JsonText(text) == [is_str |-> TRUE, str |-> text, dict |-> <<>>]
Object(pairs) == [is_str |-> FALSE, str |-> "", dict |-> pairs]

\* json.loads, on the JSON texts the model's provider sends: "{}",
\* "{\"path\": \"a\"}" and "{\"query\": \"q\"}".
json_loads(text) ==
    IF text = "{}" THEN Object(<<>>)
    ELSE IF text = "{\"path\": \"a\"}" THEN Object(<< <<"path", "a">> >>)
    ELSE Object(<< <<"query", "q">> >>)

\* A slip: arguments sent as JSON text are passed on undecoded.
serialize_without_decoding(tool_call) ==
    [id |-> tool_call.id, name |-> tool_call.name, arguments |-> tool_call.arguments]

\* Chatbot.serialize_tool_call
serialize_tool_call(tool_call) ==
    [id |-> tool_call.id, name |-> tool_call.name,
     arguments |-> IF tool_call.arguments.is_str
                   THEN json_loads(tool_call.arguments.str)
                   ELSE tool_call.arguments]

NoReply == [present |-> FALSE, content |-> "", tool_calls |-> <<>>]

NoResult ==
    [kind |-> "none", pending_approval |-> FALSE, error |-> "", messages |-> <<>>,
     tool_calls |-> <<>>, message |-> NoReply, tool_calls_used |-> <<>>]

\* The model's possible replies in iteration `it`: no tool_calls key, or a
\* list (possibly empty) of calls; the provider gives every call its own id.
\* The arguments the provider sends with the i-th call of a reply: JSON text
\* for the odd positions, a decoded object for the even ones.
ArgumentsAt(i) ==
    IF i % 2 = 1
    THEN JsonText(IF i = 1 THEN "{\"path\": \"a\"}" ELSE "{\"query\": \"q\"}")
    ELSE Object(<< <<"path", "b">> >>)

CallsOf(it, names) ==
    [i \in 1..Len(names) |->
        [id |-> 10 * it + i, name |-> names[i], arguments |-> ArgumentsAt(i)]]

Replies(it) ==
    {[present |-> FALSE, content |-> "text", tool_calls |-> <<>>]} \cup
    {[present |-> TRUE, content |-> "text", tool_calls |-> CallsOf(it, names)] :
        names \in proposals}

\* The default of max_iterations (chatbot.py:22, 37, 44; plugin.py:19).
DefaultMaxIterations == 5

\* The max_iterations argument: None, or a number.
NotGiven == [given |-> FALSE, value |-> 0]
Given(n) == [given |-> TRUE, value |-> n]

\* A slip: no default replaces a missing max_iterations.
init_without_default(arg) == arg.value

\* Chatbot.__init__: `self.max_iterations = max_iterations or 5`
Chatbot_init(arg) ==
    IF (~arg.given) \/ arg.value = 0 THEN DefaultMaxIterations ELSE arg.value

\* How a chatbot is created: by its constructor, or by
\* ChatbotFactory.create_chatbot for a "provider:model_id" or for a
\* registered chatbot class.
Creations == {"Chatbot", "create_chatbot_provider", "create_chatbot_registry"}

\* max_iterations of the chatbot created by `by` with the argument `arg`.
\* The constructor's parameter defaults to 5; the factory passes its own
\* argument (None when missing) to the constructor, or, for a registered
\* class, constructs it from its configuration (max_iterations: int = 5)
\* and assigns the argument over it when it is not None.
created_max_iterations(by, arg) ==
    IF by = "Chatbot"
    THEN Chatbot_init(IF arg.given THEN arg ELSE Given(DefaultMaxIterations))
    ELSE IF by = "create_chatbot_provider"
    THEN Chatbot_init(arg)
    ELSE IF arg.given THEN arg.value
    ELSE Chatbot_init(Given(DefaultMaxIterations))

InitialTranscripts ==
    { <<Msg("user", "hi")>>,
      <<Msg("system", "sys"), Msg("user", "hi")>> }

\* chat, lines 94-100
with_system_prompt(prompt, msgs) ==
    IF prompt # "" /\ (Len(msgs) = 0 \/ msgs[1].role # "system")
    THEN <<Msg("developer", prompt)>> \o msgs
    ELSE msgs

\* A call_tool request: nothing requested yet.
NoCall ==
    [name |-> <<>>, status |-> "none", error |-> "", server |-> <<>>,
     tool |-> <<>>, backend |-> <<>>]

\* A stop / cleanup: none was called yet.
NoStop ==
    [phase |-> "none", attempted |-> <<>>, failed |-> {}, close |-> "none",
     raised |-> "", registered |-> <<>>, closing |-> "closes"]

Conversations == {"c1", "c2"}

\* A conversation with no request made yet.
NoRequest == [op |-> "none", outcome |-> "", r |-> NoCall]

\* No agents directory has been scanned.
PluginInitValues ==
    /\ plugin_servers = <<>>
    /\ discovery = <<>>
    /\ agent_tools = <<>>

\* No toolset function is running.
ToolsetInitValues ==
    /\ toolset_manager = "None"
    /\ call_stack = <<>>

\* No chat completion has been asked for.
AdapterInitValues ==
    /\ client = "openai"
    /\ api_messages = <<>>
    /\ request = [made |-> FALSE, system |-> <<>>, messages |-> <<>>]
    /\ response = [made |-> FALSE, content |-> <<>>]
    /\ completion = [made |-> FALSE, choices |-> <<>>]

\* No chat call has set up its tools.
NoOffer ==
    [made |-> FALSE, additional |-> <<>>, servers |-> <<>>, api_tools |-> <<>>,
     raised |-> ""]

OfferInitValues ==
    /\ configured = <<>>
    /\ tool_servers = <<>>
    /\ offer = NoOffer

\* No search has been asked for.
WebInitValues ==
    /\ web_now = 0
    /\ last_request_time = 0
    /\ searchers = <<>>
    /\ search_starts = <<>>

\* No file is pending.
FileInitValues ==
    /\ img_files = <<>>
    /\ file_contents = <<>>
    /\ github_files = {}
    /\ uploaded = {}
    /\ file_op = "none"

\* No request was made to the chat service.
NoServiceOp == [op |-> "none", outcome |-> "", skill |-> FALSE, sent_ids |-> <<>>]

ServiceInitValues ==
    /\ db_history = <<>>
    /\ saved_count = 0
    /\ sent = <<>>
    /\ to_model = <<>>
    /\ service_op = NoServiceOp

\* No request was made to the tool manager.
NoRequestLog == [op |-> "none", r |-> NoCall, servers |-> {}, after_stop |-> FALSE]

StoppedInitValues ==
    /\ request_log = NoRequestLog

CallerInitValues ==
    /\ argument = <<>>

\* No call was made on the chat service manager.
NoManagerOp ==
    [op |-> "none", chat_id |-> "", outcome |-> "", returned |-> 0,
     before |-> <<>>, got_before |-> 0]

ManagerInitValues ==
    /\ db_chats = <<>>
    /\ chat_services = <<>>
    /\ instances = 0
    /\ got = <<>>
    /\ manager_op = NoManagerOp

AttachInitValues ==
    /\ attachments = <<>>

\* A resource whose release was not begun.
NotBegun == [begun |-> 0, completed |-> 0]

MainInitValues ==
    /\ main_pc = "serve"
    /\ frames = <<>>
    /\ cleanup_state = FALSE
    /\ db_close = NotBegun
    /\ mcp_close = NotBegun
    /\ signals = <<>>

LifespanInitValues ==
    /\ lifespan_pc = "database"
    /\ github_client = FALSE
    /\ lifespan_log = <<>>
    /\ served = 0

\* The parts of the program other than `own` are as constructed.
OtherInitValues(own) ==
    /\ IF own = "plugin" THEN TRUE ELSE PluginInitValues
    /\ IF own = "toolset" THEN TRUE ELSE ToolsetInitValues
    /\ IF own = "adapter" THEN TRUE ELSE AdapterInitValues
    /\ IF own = "offer" THEN TRUE ELSE OfferInitValues
    /\ IF own = "web" THEN TRUE ELSE WebInitValues
    /\ IF own \in {"file", "attach"} THEN TRUE ELSE FileInitValues
    /\ IF own \in {"service", "attach"} THEN TRUE ELSE ServiceInitValues
    /\ IF own = "stopped" THEN TRUE ELSE StoppedInitValues
    /\ IF own = "caller" THEN TRUE ELSE CallerInitValues
    /\ IF own = "manager" THEN TRUE ELSE ManagerInitValues
    /\ IF own = "attach" THEN TRUE ELSE AttachInitValues
    /\ IF own = "main" THEN TRUE ELSE MainInitValues
    /\ IF own = "lifespan" THEN TRUE ELSE LifespanInitValues

\* ... and stay so.
OthersUnchanged(own) ==
    /\ IF own = "plugin" THEN TRUE ELSE UNCHANGED pluginVars
    /\ IF own = "toolset" THEN TRUE ELSE UNCHANGED toolsetVars
    /\ IF own = "adapter" THEN TRUE ELSE UNCHANGED adapterVars
    /\ IF own = "offer" THEN TRUE ELSE UNCHANGED offerVars
    /\ IF own = "web" THEN TRUE ELSE UNCHANGED webVars
    /\ IF own \in {"file", "attach"} THEN TRUE ELSE UNCHANGED fileVars
    /\ IF own \in {"service", "attach"} THEN TRUE ELSE UNCHANGED serviceVars
    /\ IF own = "stopped" THEN TRUE ELSE UNCHANGED stoppedVars
    /\ IF own = "caller" THEN TRUE ELSE UNCHANGED callerVars
    /\ IF own = "manager" THEN TRUE ELSE UNCHANGED managerVars
    /\ IF own = "attach" THEN TRUE ELSE UNCHANGED attachVars
    /\ IF own = "main" THEN TRUE ELSE UNCHANGED mainVars
    /\ IF own = "lifespan" THEN TRUE ELSE UNCHANGED lifespanVars

\* The parts of the program a specification does not run stay as constructed.
ExtInitValues == OtherInitValues("none")

LifeInitValues ==
    /\ exit_stack = <<>>
    /\ agents = {}
    /\ toolset_tools = {}
    /\ web_client = "None"
    /\ stop_log = NoStop
    /\ stops = 0
    /\ conv = [c \in Conversations |-> NoRequest]

RouterInitValues ==
    /\ LifeInitValues
    /\ rpc = "off"
    /\ component = "none"
    /\ behaviour = <<>>
    /\ cur = 0
    /\ stage = "none"
    /\ sessions = {}
    /\ server_registry = <<>>
    /\ tool_registry = <<>>
    /\ smol_tools = {}
    /\ attempted = <<>>
    /\ last_init_error = ""
    /\ last_call = NoCall

ChatInitValues ==
    /\ pc = "Idle"
    /\ construction = [by |-> "Chatbot", arg |-> Given(1)]
    /\ proposals = {}
    /\ system_prompt = ""
    /\ max_iterations = 1
    /\ messages = <<>>
    /\ iteration = 0
    /\ reply = NoReply
    /\ idx = 0
    /\ all_tool_calls = <<>>
    /\ result = NoResult
    /\ raised = ""
    /\ executed = <<>>
    /\ history = <<>>

Init ==
    /\ pc = "Idle"
    /\ construction \in [by : {"Chatbot"}, arg : {Given(n) : n \in 1..MaxIterations}]
    /\ proposals = SeqsUpTo(ToolNames, MaxCalls)
    /\ system_prompt \in {"", "be brief"}
    /\ max_iterations = created_max_iterations(construction.by, construction.arg)
    /\ messages \in InitialTranscripts
    /\ iteration = 0
    /\ reply = NoReply
    /\ idx = 0
    /\ all_tool_calls = <<>>
    /\ result = NoResult
    /\ raised = ""
    /\ executed = <<>>
    /\ history = <<>>
    /\ RouterInitValues
    /\ ExtInitValues

\* chat, lines 93-138: up to the first model call.
ChatStart ==
    /\ pc = "Idle"
    /\ messages' = with_system_prompt(system_prompt, messages)
    /\ pc' = "AwaitingModel"
    /\ UNCHANGED <<construction, proposals, system_prompt, max_iterations, iteration, reply, idx,
                   all_tool_calls, result, raised, executed, history>>
    /\ UNCHANGED routerVars

\* chat, lines 142-148: llm_client.chat_completion raises.
ModelCallFails ==
    /\ pc = "AwaitingModel"
    /\ iteration' = iteration + 1
    /\ pc' = "Raised"
    /\ raised' = "provider"
    /\ UNCHANGED <<construction, proposals, system_prompt, max_iterations, messages, reply, idx,
                   all_tool_calls, result, executed, history>>
    /\ UNCHANGED routerVars

\* chat, lines 142-174: the model replies; final reply, approval gate, or the
\* assistant message is appended and execution of the calls begins.
ModelReplies ==
    /\ pc = "AwaitingModel"
    /\ \E message \in Replies(iteration + 1) :
        /\ iteration' = iteration + 1
        /\ reply' = message
        /\ IF has_no_tool_calls(message)
           THEN /\ pc' = "Done"
                /\ result' = [NoResult EXCEPT !.kind = "response",
                                              !.message = message,
                                              !.tool_calls_used = all_tool_calls]
                /\ UNCHANGED <<messages, idx, history>>
           ELSE IF check_tool_approvals_needed(message.tool_calls)
           THEN /\ pc' = "PendingApproval"
                /\ result' = [NoResult EXCEPT
                                !.kind = "pending_approval",
                                !.pending_approval = TRUE,
                                !.tool_calls =
                                    [i \in 1..Len(message.tool_calls) |->
                                        serialize_tool_call(message.tool_calls[i])],
                                !.message = message]
                /\ UNCHANGED <<messages, idx, history>>
           ELSE /\ messages' = Append(messages, assistant_message(message))
                /\ history' = Append(history, message.tool_calls)
                /\ idx' = 1
                /\ pc' = "Executing"
                /\ UNCHANGED result
    /\ UNCHANGED <<construction, proposals, system_prompt, max_iterations,
                   all_tool_calls, raised, executed>>
    /\ UNCHANGED routerVars

\* chat, lines 206-214
max_iterations_result(msgs, used) ==
    [NoResult EXCEPT !.kind = "error",
                     !.error = "Max iterations reached without final response",
                     !.messages = msgs,
                     !.tool_calls_used = used]

\* chat, lines 177-204: one tool call returns; its tool message is appended.
\* After the last call of the reply the loop goes on or is exhausted.
ToolCallReturns ==
    /\ pc = "Executing"
    /\ LET tool_call == reply.tool_calls[idx]
           used == Append(all_tool_calls, tool_call.name)
           msgs == Append(messages, tool_message(tool_call, "ok"))
       IN  /\ all_tool_calls' = used
           /\ executed' = Append(executed,
                                 [round |-> iteration, id |-> tool_call.id,
                                  name |-> tool_call.name])
           /\ messages' = msgs
           /\ IF idx < Len(reply.tool_calls)
              THEN /\ idx' = idx + 1
                   /\ UNCHANGED <<pc, result>>
              ELSE /\ idx' = 0
                   /\ IF loop_has_next(iteration, max_iterations)
                      THEN /\ pc' = "AwaitingModel"
                           /\ UNCHANGED result
                      ELSE /\ pc' = "MaxIterations"
                           /\ result' = max_iterations_result(msgs, used)
    /\ UNCHANGED <<construction, proposals, system_prompt, max_iterations, iteration,
                   reply, raised, history>>
    /\ UNCHANGED routerVars

\* chat, line 195: tool_manager.call_tool raises (a timeout, an execution
\* error, an unknown tool); nothing in chat catches it.
ToolCallRaises ==
    /\ pc = "Executing"
    /\ \E e \in {"TimeoutError", "ToolExecutionError", "ValueError"} :
        raised' = e
    /\ LET tool_call == reply.tool_calls[idx]
       IN  /\ all_tool_calls' = Append(all_tool_calls, tool_call.name)
           /\ executed' = Append(executed,
                                 [round |-> iteration, id |-> tool_call.id,
                                  name |-> tool_call.name])
    /\ pc' = "Raised"
    /\ UNCHANGED <<construction, proposals, system_prompt, max_iterations, messages,
                   iteration, reply, idx,
                   result, history>>
    /\ UNCHANGED routerVars

Next ==
    \/ ChatStart
    \/ ModelCallFails
    \/ ModelReplies
    \/ ToolCallReturns
    \/ ToolCallRaises

Spec == Init /\ [][Next]_vars

(***************************************************************************)
(* Properties of Chatbot.chat                                              *)
(***************************************************************************)
ToolErrors == {"TimeoutError", "ToolExecutionError", "ValueError"}

RequiresApproval(name) ==
    get_tool_definition(name).exists /\ get_tool_definition(name).require_approval

ExecutedInRound(r) == {j \in 1..Len(executed) : executed[j].round = r}

RECURSIVE RoundsTranscript(_)
RoundsTranscript(h) ==
    IF Len(h) = 0 THEN <<>>
    ELSE LET calls == h[Len(h)]
         IN  RoundsTranscript(SubSeq(h, 1, Len(h) - 1))
             \o <<[role |-> "assistant", content |-> "text", tool_call_id |-> 0,
                   tool_calls |-> calls]>>
             \o [i \in 1..Len(calls) |->
                    [role |-> "tool", content |-> "ok",
                     tool_call_id |-> calls[i].id, tool_calls |-> <<>>]]

EndsWith(s, t) ==
    /\ Len(t) <= Len(s)
    /\ SubSeq(s, Len(s) - Len(t) + 1, Len(s)) = t

\* C2: with max_iterations = N, a run in which every reply proposed tool
\* calls that all succeeded ends after exactly N model calls and N rounds of
\* execution with the "Max iterations reached" result, whose messages hold
\* the assistant message and tool messages of all N rounds; a further model
\* call is never made once N rounds are done.
C2_MaxIterationsAfterNRounds ==
    /\ iteration <= max_iterations
    /\ (pc = "AwaitingModel" => iteration < max_iterations)
    /\ (Len(history) = max_iterations /\ pc # "Executing" /\ raised = ""
            => pc = "MaxIterations")
    /\ (pc = "MaxIterations" =>
            /\ iteration = max_iterations
            /\ Len(history) = max_iterations
            /\ result.error = "Max iterations reached without final response"
            /\ EndsWith(result.messages, RoundsTranscript(history))
            /\ Len(result.messages) > Len(RoundsTranscript(history)))

\* C2 witness: the largest configured bound was exhausted by replies of two
\* calls each.
C2_Witness ==
    /\ pc = "MaxIterations"
    /\ max_iterations = MaxIterations
    /\ Len(executed) = 2 * MaxIterations

LastAssistant ==
    LET S == {i \in 1..Len(messages) : messages[i].role = "assistant"}
    IN  IF S = {} THEN 0 ELSE CHOOSE i \in S : \A j \in S : j <= i

RECURSIVE ProposedIds(_)
ProposedIds(h) ==
    IF Len(h) = 0 THEN <<>>
    ELSE ProposedIds(SubSeq(h, 1, Len(h) - 1))
         \o [i \in 1..Len(h[Len(h)]) |-> h[Len(h)][i].id]

ExecutedIds == [j \in 1..Len(executed) |-> executed[j].id]

\* C3: the calls of a reply are executed one after another in the order
\* proposed, and whenever the next model call is due (or the loop is
\* exhausted) the transcript holds, directly after the assistant message of
\* the last reply, exactly one tool message per proposed call, in the same
\* order, each with the tool_call_id of its call.
C3_ToolMessagesInOrder ==
    /\ Len(ExecutedIds) <= Len(ProposedIds(history))
    /\ ExecutedIds = SubSeq(ProposedIds(history), 1, Len(ExecutedIds))
    /\ (pc \in {"AwaitingModel", "MaxIterations"} /\ Len(history) > 0 =>
            LET a == LastAssistant
                calls == history[Len(history)]
            IN  /\ a > 0
                /\ messages[a].tool_calls = calls
                /\ Len(messages) = a + Len(calls)
                /\ \A i \in 1..Len(calls) :
                      /\ messages[a + i].role = "tool"
                      /\ messages[a + i].tool_call_id = calls[i].id
                /\ ExecutedIds = ProposedIds(history))

\* C3 witness: a reply of two calls was executed and the next model call is due.
C3_Witness ==
    /\ pc = "AwaitingModel"
    /\ iteration = 1
    /\ Len(reply.tool_calls) = 2
    /\ Len(executed) = 2
    /\ messages[Len(messages)].tool_call_id = reply.tool_calls[2].id

\* C4 (as claimed): a failing tool call never makes chat raise; the failure
\* becomes the content of the call's tool message and the run goes on.
C4_ToolFailureDoesNotRaise == raised \notin ToolErrors

\* C9 (as claimed): after a failed model API call chat has returned a
\* terminal error result carrying the transcript.
C9_ProviderFailureReturnsErrorResult ==
    raised = "provider" =>
        /\ result.kind = "error"
        /\ result.messages = messages

\* C10: a reply without tool calls (no tool_calls key, or an empty list) ends
\* the run at once with that reply as the result; no call of that round is
\* executed and no further step of the run is possible.
C10_FinalReplyTerminates ==
    /\ (/\ iteration > 0
        /\ raised # "provider"
        /\ (~reply.present \/ reply.tool_calls = <<>>))
       => /\ pc = "Done"
          /\ result.kind = "response"
          /\ result.message = reply
          /\ ExecutedInRound(iteration) = {}
    /\ (pc = "Done" => ~ENABLED Next)

\* C10 witness: after one executed round the model answered with an empty
\* tool_calls list.
C10_Witness ==
    /\ pc = "Done"
    /\ iteration = 2
    /\ reply.present
    /\ reply.tool_calls = <<>>
    /\ Len(executed) > 0

(***************************************************************************)
(* ToolManager.start / MCPToolHandler.initialize and call_tool             *)
(*                                                                         *)
(* A name is a sequence of tokens; the separators ":" and "__" are tokens  *)
(* of their own, so that splitting and joining are computed, not assumed.  *)
(***************************************************************************)
ServerPool == << <<"files">>, <<"db">>, <<"web">>, <<"git">>, <<"fs">> >>

\* The configured servers, in the order of the configuration dictionary.
Servers == SubSeq(ServerPool, 1, MaxServers)

\* What a server's tool discovery reports (names may contain a separator).
ToolsOf(server) ==
    IF server = <<"files">> THEN << <<"read">>, <<"read", "__", "all">> >>
    ELSE IF server = <<"db">> THEN << <<"query">>, <<"q", ":", "x">> >>
    ELSE IF server = <<"web">> THEN << >>
    ELSE << <<"log">> >>

BuiltinTools == << <<"web_search">>, <<"visit_webpage">> >>

\* Where the initialization of a server fails, if anywhere.
Behaviours == {"ok", "type", "connect", "session", "handshake", "discover"}

Range(f) == {f[i] : i \in DOMAIN f}

\* f"{server_name}:{tool}" (manager.py:109, mcp_handler.py:96)
registry_key(server, tool) == server \o <<":">> \o tool

\* The value stored in the registries: ToolType.MCP in ToolManager, True in
\* MCPToolHandler.
registry_value(c) == IF c = "ToolManager" THEN "mcp" ELSE "True"

Put(f, k, v) == (k :> v) @@ f

\* A slip: a failing server ends the loop instead of being skipped.
abort_on_failure(i) == Len(Servers) + 1

\* `continue` (manager.py:128, mcp_handler.py:109): on to the next server.
after_failure(i) == i + 1

\* A context entered on the exit stack: enter_async_context(stdio_client(...))
\* (manager.py:58, mcp_handler.py:47) or enter_async_context(session)
\* (manager.py:74, mcp_handler.py:61).
entered(kind, server) == [kind |-> kind, server |-> server]

\* Leaving the loop body of server i for server j.
Advance(j) ==
    /\ cur' = j
    /\ stage' = "connect"
    /\ rpc' = IF j <= Len(Servers) THEN "starting"
              ELSE IF component = "ToolManager" THEN "builtins" ELSE "started"

FailureKinds == {"TimeoutError", "Exception"}

\* The sub-step of server cur fails (by timeout or by an exception); the
\* inner handler re-raises and the outer `except Exception` skips the server.
StepFails ==
    /\ \E e \in FailureKinds : last_init_error' = e
    /\ Advance(after_failure(cur))

RouterInit ==
    /\ ChatInitValues
    /\ ExtInitValues
    /\ rpc = "constructed"
    /\ component \in {"ToolManager", "MCPToolHandler"}
    /\ behaviour \in [1..MaxServers -> Behaviours]
    /\ cur = 0
    /\ stage = "none"
    /\ sessions = {}
    /\ server_registry = <<>>
    /\ tool_registry = <<>>
    /\ smol_tools = {}
    /\ attempted = <<>>
    /\ last_init_error = ""
    /\ last_call = NoCall
    /\ LifeInitValues

\* start / initialize is called: the loop over the configured servers begins.
StartBegins ==
    /\ rpc = "constructed"
    /\ component \in {"ToolManager", "MCPToolHandler"}
    /\ cur' = 1
    /\ stage' = "connect"
    /\ rpc' = IF Len(Servers) >= 1 THEN "starting"
              ELSE IF component = "ToolManager" THEN "builtins" ELSE "started"
    /\ UNCHANGED <<component, behaviour, sessions, server_registry, tool_registry,
                   smol_tools, attempted, last_init_error, last_call, exit_stack>>
    /\ UNCHANGED <<chatVars, lifeVars, extVars>>

\* Type check and stdio_client connect under wait_for.
Connect ==
    /\ rpc = "starting" /\ stage = "connect"
    /\ attempted' = Append(attempted, Servers[cur])
    /\ IF behaviour[cur] = "type"
       THEN /\ last_init_error' = "ValueError"
            /\ Advance(after_failure(cur))
            /\ UNCHANGED exit_stack
       ELSE IF behaviour[cur] = "connect"
       THEN /\ StepFails
            /\ UNCHANGED exit_stack
       ELSE /\ stage' = "session"
            /\ exit_stack' = Append(exit_stack, entered("stdio_client", Servers[cur]))
            /\ UNCHANGED <<rpc, cur, last_init_error>>
    /\ UNCHANGED <<component, behaviour, sessions, server_registry, tool_registry,
                   smol_tools, last_call>>
    /\ UNCHANGED <<chatVars, lifeVars, extVars>>

\* ClientSession is created and entered under wait_for.
EnterSession ==
    /\ rpc = "starting" /\ stage = "session"
    /\ IF behaviour[cur] = "session"
       THEN /\ StepFails
            /\ UNCHANGED exit_stack
       ELSE /\ stage' = "handshake"
            /\ exit_stack' = Append(exit_stack, entered("session", Servers[cur]))
            /\ UNCHANGED <<rpc, cur, last_init_error>>
    /\ UNCHANGED <<component, behaviour, sessions, server_registry, tool_registry,
                   smol_tools, attempted, last_call>>
    /\ UNCHANGED <<chatVars, lifeVars, extVars>>

\* session.initialize() under wait_for; on success the session and the
\* server are registered, before tool discovery.
Handshake ==
    /\ rpc = "starting" /\ stage = "handshake"
    /\ IF behaviour[cur] = "handshake"
       THEN /\ StepFails
            /\ UNCHANGED <<sessions, server_registry>>
       ELSE /\ sessions' = sessions \cup {Servers[cur]}
            /\ server_registry' =
                   Put(server_registry, Servers[cur], registry_value(component))
            /\ stage' = "discover"
            /\ UNCHANGED <<rpc, cur, last_init_error>>
    /\ UNCHANGED <<component, behaviour, tool_registry, smol_tools, attempted,
                   last_call, exit_stack>>
    /\ UNCHANGED <<chatVars, lifeVars, extVars>>

RECURSIVE register_tools(_, _, _, _)
register_tools(reg, server, tools, c) ==
    IF Len(tools) = 0 THEN reg
    ELSE register_tools(Put(reg, registry_key(server, Head(tools)), registry_value(c)),
                        server, Tail(tools), c)

\* session.list_tools() under wait_for; on success every reported tool is
\* registered and the loop goes on with the next server.
Discover ==
    /\ rpc = "starting" /\ stage = "discover"
    /\ IF behaviour[cur] = "discover"
       THEN /\ StepFails
            /\ UNCHANGED tool_registry
       ELSE /\ tool_registry' =
                   register_tools(tool_registry, Servers[cur],
                                  ToolsOf(Servers[cur]), component)
            /\ Advance(cur + 1)
            /\ UNCHANGED last_init_error
    /\ UNCHANGED <<component, behaviour, sessions, server_registry, smol_tools,
                   attempted, last_call, exit_stack>>
    /\ UNCHANGED <<chatVars, lifeVars, extVars>>

\* A slip: the built-in tools are registered without their servers.
builtin_servers_unregistered(reg, k) == reg

\* The state after the first k built-in tools were constructed and registered.
RECURSIVE builtins_registered(_, _)
builtins_registered(reg, k) ==
    IF k = 0 THEN reg
    ELSE Put(builtins_registered(reg, k - 1), BuiltinTools[k], "smolagents_tool")

RECURSIVE builtin_tools_registered(_, _)
builtin_tools_registered(reg, k) ==
    IF k = 0 THEN reg
    ELSE Put(builtin_tools_registered(reg, k - 1),
             registry_key(BuiltinTools[k], BuiltinTools[k]), "smolagents_tool")

\* ToolManager.start, built-in tools: the first k constructors succeed; if
\* one raises, start re-raises with what was registered so far left behind.
BuiltinsInit ==
    /\ rpc = "builtins"
    /\ \E k \in 0..Len(BuiltinTools) :
        /\ smol_tools' = smol_tools \cup {BuiltinTools[i] : i \in 1..k}
        /\ server_registry' = builtins_registered(server_registry, k)
        /\ tool_registry' = builtin_tools_registered(tool_registry, k)
        /\ rpc' = IF k = Len(BuiltinTools) THEN "started" ELSE "start_raised"
    /\ UNCHANGED <<component, behaviour, cur, stage, sessions, attempted,
                   last_init_error, last_call, exit_stack>>
    /\ UNCHANGED <<chatVars, lifeVars, extVars>>

\* Position of the first occurrence of token sep in name (0 when absent).
FirstIndex(name, sep) ==
    LET S == {i \in 1..Len(name) : name[i] = sep}
    IN  IF S = {} THEN 0 ELSE CHOOSE i \in S : \A j \in S : i <= j

\* `server_name, actual_tool_name = tool_name.split(":", 1)`
split_colon(tool_name) ==
    LET k == FirstIndex(tool_name, ":")
    IN  IF k = 0
        THEN [ok |-> FALSE, server |-> <<>>, tool |-> <<>>]
        ELSE [ok |-> TRUE, server |-> SubSeq(tool_name, 1, k - 1),
              tool |-> SubSeq(tool_name, k + 1, Len(tool_name))]

\* f"{tool_server}__{tool.name}": the name chat advertises to the model.
api_tool_name(tool_server, tool) == tool_server \o <<"__">> \o tool

\* f"{server_name}__{tool_name}": the name ToolSetHandler.call_other_tool builds.
call_other_tool_name(server_name, tool_name) == server_name \o <<"__">> \o tool_name

CallRaised(name, e) ==
    [name |-> name, status |-> "raised", error |-> e, server |-> <<>>,
     tool |-> <<>>, backend |-> <<>>]

\* A slip: a failed call is sent to the backend a second time and its
\* failure is returned as a value.
CallReachedRetrying(name, server, tool, outcome) ==
    [name |-> name, status |-> "returned", error |-> "",
     server |-> server, tool |-> tool,
     backend |-> IF outcome = "ok"
                 THEN <<[server |-> server, tool |-> tool]>>
                 ELSE <<[server |-> server, tool |-> tool],
                        [server |-> server, tool |-> tool]>>]

\* A slip: the registry is not consulted before the session is.
call_tool_without_registry(tool_name, outcome) ==
    LET k == FirstIndex(tool_name, ":")
        server == SubSeq(tool_name, 1, k - 1)
        tool == SubSeq(tool_name, k + 1, Len(tool_name))
    IN  IF k = 0 \/ server \notin sessions
        THEN [name |-> tool_name, status |-> "raised", error |-> "ValueError",
              server |-> <<>>, tool |-> <<>>, backend |-> <<>>]
        ELSE [name |-> tool_name,
              status |-> IF outcome = "ok" THEN "returned" ELSE "raised",
              error |-> IF outcome = "ok" THEN ""
                        ELSE IF outcome = "timeout" THEN "TimeoutError" ELSE "Exception",
              server |-> server, tool |-> tool,
              backend |-> <<[server |-> server, tool |-> tool]>>]

\* The backend (a session or a built-in tool) was invoked once with `tool`.
CallReached(name, server, tool, outcome) ==
    [name |-> name,
     status |-> IF outcome = "ok" THEN "returned" ELSE "raised",
     error |-> IF outcome = "ok" THEN ""
               ELSE IF outcome = "timeout" THEN "TimeoutError" ELSE "Exception",
     server |-> server, tool |-> tool,
     backend |-> <<[server |-> server, tool |-> tool]>>]

\* ToolManager.call_tool
ToolManager_call_tool(tool_name, outcome) ==
    LET p == split_colon(tool_name)
    IN  IF ~p.ok THEN CallRaised(tool_name, "ValueError")
        ELSE IF tool_name \notin DOMAIN tool_registry
        THEN CallRaised(tool_name, "ValueError")
        ELSE IF tool_registry[tool_name] = "smolagents_tool"
        THEN IF p.tool \notin smol_tools
             THEN CallRaised(tool_name, "ValueError")
             ELSE CallReached(tool_name, p.server, p.tool,
                              IF outcome = "timeout" THEN "error" ELSE outcome)
        ELSE IF p.server \notin sessions
        THEN CallRaised(tool_name, "ValueError")
        ELSE CallReached(tool_name, p.server, p.tool, outcome)

\* MCPToolHandler.call_tool
MCPToolHandler_call_tool(tool_name, outcome) ==
    LET p == split_colon(tool_name)
    IN  IF ~p.ok THEN CallRaised(tool_name, "ValueError")
        ELSE IF p.server \notin sessions
        THEN CallRaised(tool_name, "ValueError")
        ELSE CallReached(tool_name, p.server, p.tool, outcome)

\* ToolSetHandler.call_tool, on the toolset "web_tools"
ToolSetHandler_call_tool(tool_name, outcome) ==
    IF tool_name \notin toolset_tools
    THEN CallRaised(tool_name, "ValueError")
    ELSE CallReached(tool_name, <<"web_tools">>, tool_name,
                     IF outcome = "timeout" THEN "error" ELSE outcome)

AllServers == Range(Servers) \cup Range(BuiltinTools)

ListedTools(server) ==
    IF server \in Range(BuiltinTools) THEN {server} ELSE Range(ToolsOf(server))

\* The identifiers a caller may request: every server's tools joined with
\* either separator, a tool no server has, and a name without a separator.
RequestNames ==
    UNION {UNION {{api_tool_name(s, t), registry_key(s, t)} :
                     t \in ListedTools(s) \cup {<<"nope">>}} : s \in AllServers}
    \cup {<<"files">>}

call_tool(tool_name, outcome) ==
    IF component = "ToolManager"
    THEN ToolManager_call_tool(tool_name, outcome)
    ELSE IF component = "WebTools"
    THEN ToolSetHandler_call_tool(tool_name, outcome)
    ELSE MCPToolHandler_call_tool(tool_name, outcome)

\* What the backend may answer, for a request that reaches one.
BackendOutcomes(tool_name) ==
    IF call_tool(tool_name, "ok").backend = <<>>
    THEN {"ok"}
    ELSE {"ok", "timeout", "error"}

\* One call_tool request after start-up, with the backend's outcome.
CallTool ==
    /\ rpc = "started"
    /\ \E name \in RequestNames :
        \E outcome \in BackendOutcomes(name) :
            last_call' = call_tool(name, outcome)
    /\ UNCHANGED <<rpc, component, behaviour, cur, stage, sessions, server_registry,
                   tool_registry, smol_tools, attempted, last_init_error, exit_stack>>
    /\ UNCHANGED <<chatVars, lifeVars, extVars>>

RouterNext ==
    \/ StartBegins
    \/ Connect
    \/ EnterSession
    \/ Handshake
    \/ Discover
    \/ BuiltinsInit
    \/ CallTool

SpecRouter == RouterInit /\ [][RouterNext]_vars

(***************************************************************************)
(* Properties of start-up and routing                                      *)
(***************************************************************************)
LoopFinished == rpc \in {"builtins", "started", "start_raised"}

RegisteredTools(server) ==
    \A i \in 1..Len(ToolsOf(server)) :
        registry_key(server, ToolsOf(server)[i]) \in DOMAIN tool_registry

\* C5: a server failing at any sub-step does not keep another from being
\* initialized: once the loop over the configuration is through, every
\* server was attempted, in configuration order, and every server that
\* initializes successfully on its own holds a session, is registered and
\* has its tools registered, wherever it stands relative to failing ones;
\* the loop itself never raises (start can only raise from the built-in
\* tools, after the loop) and is never stuck.
C5_FailureIsolation ==
    /\ (LoopFinished =>
            /\ attempted = Servers
            /\ \A i \in 1..Len(Servers) :
                  behaviour[i] = "ok" =>
                      /\ Servers[i] \in sessions
                      /\ Servers[i] \in DOMAIN server_registry
                      /\ RegisteredTools(Servers[i]))
    /\ (rpc = "start_raised" => component = "ToolManager" /\ cur = Len(Servers) + 1)
    /\ (rpc \in {"constructed", "starting", "builtins"} => ENABLED RouterNext)

\* C5 witness: the first configured server timed out at connect and the
\* server after it was initialized with its tools.
C5_Witness ==
    /\ rpc = "started"
    /\ behaviour[1] = "connect"
    /\ behaviour[2] = "ok"
    /\ last_init_error = "TimeoutError"
    /\ Servers[2] \in sessions
    /\ RegisteredTools(Servers[2])
    /\ Servers[1] \notin sessions

ToolKeysOf(server) ==
    {k \in DOMAIN tool_registry : split_colon(k).server = server}

\* C6 (as claimed): after start-up a server whose initialization failed at
\* any sub-step, tool discovery included, is in none of the server registry,
\* the sessions map and the tool registry, and every server that was
\* initialized is in all of them with every tool it reported.
C6_FailedServerSkipped ==
    LoopFinished =>
        \A i \in 1..Len(Servers) :
            IF behaviour[i] = "ok"
            THEN /\ Servers[i] \in sessions
                 /\ Servers[i] \in DOMAIN server_registry
                 /\ RegisteredTools(Servers[i])
            ELSE /\ Servers[i] \notin sessions
                 /\ Servers[i] \notin DOMAIN server_registry
                 /\ ToolKeysOf(Servers[i]) = {}

\* The identifiers `server__tool` of the registered servers' listed tools.
ValidIdentifier(name) ==
    \E s \in DOMAIN server_registry :
        \E t \in ListedTools(s) : name = api_tool_name(s, t)

\* Text before and after the first "__" of an identifier.
ServerPart(name) == SubSeq(name, 1, FirstIndex(name, "__") - 1)
ToolPart(name) == SubSeq(name, FirstIndex(name, "__") + 1, Len(name))

\* C7 (as claimed): a call with a valid identifier `server__tool` of a
\* registered server reaches exactly one backend, that of the named server,
\* and hands it exactly the text after the first separator.
C7_RoutesToNamedServer ==
    (rpc = "started" /\ last_call.status # "none" /\ ValidIdentifier(last_call.name))
    => last_call.backend =
          <<[server |-> ServerPart(last_call.name), tool |-> ToolPart(last_call.name)]>>

\* How the running component resolves a requested identifier.
Resolve(name) ==
    LET r == call_tool(name, "ok")
    IN  [found |-> r.status = "returned", server |-> r.server, tool |-> r.tool]

\* C8 (as claimed): for every registered server s and every tool t listed
\* for it, the name chat advertises for (s, t), and the name call_other_tool
\* builds for (s, t), is resolved by call_tool to server s and tool t.
C8_AdvertisedNameResolves ==
    rpc = "started" =>
        \A s \in DOMAIN server_registry :
            \A t \in ListedTools(s) :
                /\ Resolve(api_tool_name(s, t)) =
                       [found |-> TRUE, server |-> s, tool |-> t]
                /\ Resolve(call_other_tool_name(s, t)) =
                       [found |-> TRUE, server |-> s, tool |-> t]

(***************************************************************************)
(* Shutdown: ToolManager.stop and the handlers' cleanup                    *)
(*                                                                         *)
(* SpecStop runs the start-up of one component and then stop / cleanup on  *)
(* it, from wherever start-up left it, up to MaxStops times in a row.      *)
(***************************************************************************)
AgentPool == << <<"notes_agent">>, <<"research_agent">>, <<"code_agent">>,
                <<"mail_agent">> >>

\* The agent plugins found in the agents directory, in load order.
AgentPlugins == SubSeq(AgentPool, 1, MaxAgents)

\* The functions of WebTools decorated with @tool.
WebToolNames == {<<"fetch_page">>, <<"fetch_multiple_pages">>, <<"web_search">>}

\* The registered agents in the order of the dictionary (load order).
agents_items(registered) ==
    SelectSeq(AgentPlugins, LAMBDA a : a \in registered)

\* How closing the exit stack behaves when it is awaited.
CloseBehaviours == {"closes", "raises", "hangs"}

\* A slip: only the first agent is cleaned when its cleanup raises.
RECURSIVE cleanup_until_failure(_, _)
cleanup_until_failure(items, failing) ==
    IF Len(items) = 0 THEN <<>>
    ELSE IF Head(items) \in failing THEN <<Head(items)>>
    ELSE <<Head(items)>> \o cleanup_until_failure(Tail(items), failing)

\* `for agent_name, agent in self._agents.items(): try: agent.cleanup()
\* except Exception: log`: the agents whose cleanup was called, in order.
RECURSIVE cleanup_agents(_, _)
cleanup_agents(items, failing) ==
    IF Len(items) = 0 THEN <<>>
    ELSE <<Head(items)>> \o cleanup_agents(Tail(items), failing)

\* A slip: the exit stack is awaited without a timeout.
aclose_without_timeout(b) ==
    IF b = "closes" THEN "closed" ELSE IF b = "raises" THEN "error" ELSE "never"

\* `await asyncio.wait_for(self._exit_stack.aclose(), timeout=...)` inside
\* try / except asyncio.TimeoutError / except Exception: what the await ends
\* with ("never" when it does not end).
wait_for_aclose(b) ==
    IF b = "closes" THEN "closed" ELSE IF b = "raises" THEN "error" ELSE "timeout"

\* A slip: a failed or timed-out teardown leaves stop by an exception,
\* before the maps are cleared.
reraise_after_aclose(outcome) == IF outcome = "closed" THEN "" ELSE "Exception"

\* What leaves stop / cleanup after the exit stack was awaited: both except
\* clauses only log.
raised_after_aclose(outcome) == ""

\* What is left on the exit stack after aclose: nothing when it completed;
\* when it was cut short, the contexts not yet exited (it exits newest first).
stack_after_aclose(stack, outcome) ==
    IF outcome = "closed" THEN {<<>>}
    ELSE {SubSeq(stack, 1, k) : k \in 0..(Len(stack) - 1)}

RECURSIVE register_agents(_, _)
register_agents(reg, items) ==
    IF Len(items) = 0 THEN reg
    ELSE register_agents(Put(reg, registry_key(Head(items), Head(items)), "True"),
                         Tail(items))

RECURSIVE register_agent_servers(_, _)
register_agent_servers(reg, items) ==
    IF Len(items) = 0 THEN reg
    ELSE register_agent_servers(Put(reg, Head(items), "True"), Tail(items))

StopInit ==
    /\ ChatInitValues
    /\ ExtInitValues
    /\ rpc = "constructed"
    /\ component \in {"ToolManager", "MCPToolHandler", "AgentPluginHandler", "WebTools"}
    /\ IF component \in {"ToolManager", "MCPToolHandler"}
       THEN behaviour \in [1..MaxServers -> Behaviours]
       ELSE behaviour = [i \in 1..MaxServers |-> "ok"]
    /\ cur = 0
    /\ stage = "none"
    /\ sessions = {}
    /\ server_registry = <<>>
    /\ tool_registry = <<>>
    /\ smol_tools = {}
    /\ attempted = <<>>
    /\ last_init_error = ""
    /\ last_call = NoCall
    /\ LifeInitValues

\* AgentPluginHandler.initialize: every plugin file is loaded in its own
\* try / except; the ones that load are registered.
AgentsInitialize ==
    /\ rpc = "constructed"
    /\ component = "AgentPluginHandler"
    /\ \E loaded \in SUBSET Range(AgentPlugins) :
        /\ agents' = loaded
        /\ tool_registry' = register_agents(tool_registry, agents_items(loaded))
        /\ server_registry' =
               register_agent_servers(server_registry, agents_items(loaded))
    /\ rpc' = "started"
    /\ UNCHANGED <<component, behaviour, cur, stage, sessions, smol_tools, attempted,
                   last_init_error, last_call, exit_stack>>
    /\ UNCHANGED <<toolset_tools, web_client, stop_log, stops, conv>>
    /\ UNCHANGED <<chatVars, extVars>>

\* WebTools.initialize: the decorated functions are registered, then the HTTP
\* client is created; if its construction raises, initialize raises with the
\* functions registered and no client.
WebInitialize ==
    /\ rpc = "constructed"
    /\ component = "WebTools"
    /\ toolset_tools' = WebToolNames
    /\ \E client_created \in BOOLEAN :
        /\ web_client' = IF client_created THEN "open" ELSE "None"
        /\ rpc' = IF client_created THEN "started" ELSE "start_raised"
    /\ UNCHANGED <<component, behaviour, cur, stage, sessions, server_registry,
                   tool_registry, smol_tools, attempted, last_init_error, last_call,
                   exit_stack>>
    /\ UNCHANGED <<agents, stop_log, stops, conv>>
    /\ UNCHANGED <<chatVars, extVars>>

Stoppable == rpc \in {"constructed", "started", "start_raised", "stopped"}

\* stop / cleanup is called and runs up to its await (AgentPluginHandler's
\* cleanup has none and runs through).
StopBegins ==
    /\ Stoppable
    /\ stops < MaxStops
    /\ stops' = stops + 1
    /\ IF component = "AgentPluginHandler"
       THEN \E failing \in SUBSET agents :
            /\ stop_log' = [phase |-> "done",
                            attempted |-> cleanup_agents(agents_items(agents), failing),
                            failed |-> failing, close |-> "none", raised |-> "",
                            registered |-> agents_items(agents), closing |-> "closes"]
            /\ agents' = {}
            /\ tool_registry' = <<>>
            /\ server_registry' = <<>>
            /\ rpc' = "stopped"
            /\ UNCHANGED <<sessions, smol_tools, web_client>>
       ELSE IF component = "WebTools"
       THEN /\ stop_log' = [phase |-> IF web_client = "None" THEN "done" ELSE "closing",
                            attempted |-> <<>>, failed |-> {}, close |-> "none",
                            raised |-> "", registered |-> <<>>, closing |-> "closes"]
            /\ rpc' = IF web_client = "None" THEN "stopped" ELSE "closing"
            /\ UNCHANGED <<agents, tool_registry, server_registry, sessions,
                           smol_tools, web_client>>
       ELSE \E failing \in SUBSET agents :
            \E b \in (IF Len(exit_stack) = 0 THEN {"closes"} ELSE CloseBehaviours) :
            /\ stop_log' = [phase |-> "closing",
                            attempted |->
                                IF component = "ToolManager"
                                THEN cleanup_agents(agents_items(agents), failing)
                                ELSE <<>>,
                            failed |-> failing, close |-> "none", raised |-> "",
                            registered |-> agents_items(agents), closing |-> b]
            /\ rpc' = "closing"
            /\ UNCHANGED <<agents, tool_registry, server_registry, sessions,
                           smol_tools, web_client>>
    /\ UNCHANGED <<component, behaviour, cur, stage, attempted, last_init_error,
                   last_call, exit_stack, toolset_tools, conv>>
    /\ UNCHANGED <<chatVars, extVars>>

\* ToolManager.stop / MCPToolHandler.cleanup: the await of the exit stack
\* ends; whatever it ended with, every map is cleared and the call returns.
ExitStackCloses ==
    /\ rpc = "closing"
    /\ component \in {"ToolManager", "MCPToolHandler"}
    /\ wait_for_aclose(stop_log.closing) # "never"
    /\ LET outcome == wait_for_aclose(stop_log.closing)
       IN  /\ exit_stack' \in stack_after_aclose(exit_stack, outcome)
           /\ stop_log' = [stop_log EXCEPT !.phase = "done", !.close = outcome,
                                           !.raised = raised_after_aclose(outcome)]
           /\ IF raised_after_aclose(outcome) = ""
              THEN /\ sessions' = {}
                   /\ server_registry' = <<>>
                   /\ tool_registry' = <<>>
                   /\ smol_tools' = {}
                   /\ agents' = {}
              ELSE UNCHANGED <<sessions, server_registry, tool_registry, smol_tools,
                               agents>>
    /\ rpc' = "stopped"
    /\ UNCHANGED <<component, behaviour, cur, stage, attempted, last_init_error,
                   last_call, toolset_tools, web_client, stops, conv>>
    /\ UNCHANGED <<chatVars, extVars>>

\* WebTools.cleanup: `await self._client.aclose()` ends, by returning or by
\* raising; nothing around it catches.
WebClientCloses ==
    /\ rpc = "closing"
    /\ component = "WebTools"
    /\ \E closed \in BOOLEAN :
        /\ web_client' = IF closed THEN "closed" ELSE web_client
        /\ stop_log' = [stop_log EXCEPT !.phase = "done",
                                        !.close = IF closed THEN "closed" ELSE "error",
                                        !.raised = IF closed THEN "" ELSE "Exception"]
    /\ rpc' = "stopped"
    /\ UNCHANGED <<component, behaviour, cur, stage, sessions, server_registry,
                   tool_registry, smol_tools, attempted, last_init_error, last_call,
                   exit_stack, agents, toolset_tools, stops, conv>>
    /\ UNCHANGED <<chatVars, extVars>>

StopNext ==
    \/ StartBegins
    \/ Connect
    \/ EnterSession
    \/ Handshake
    \/ Discover
    \/ BuiltinsInit
    \/ AgentsInitialize
    \/ WebInitialize
    \/ StopBegins
    \/ ExitStackCloses
    \/ WebClientCloses

SpecStop == StopInit /\ [][StopNext]_vars

\* The await of the exit stack is bounded by the timeout of wait_for, so it
\* ends whenever it is pending.
FairSpecStop == SpecStop /\ WF_vars(ExitStackCloses)

(***************************************************************************)
(* Properties of shutdown                                                  *)
(***************************************************************************)
StopReturned == rpc = "stopped" /\ stop_log.phase = "done"

\* C11 (as claimed): cleanup of a tool handler, on one that was never
\* initialized, on one whose initialize failed partway and on one that was
\* initialized, any number of times in a row, never raises, and after each
\* call the handler's sessions and registries are empty.
C11_CleanupNeverRaises ==
    (StopReturned /\ component \in {"MCPToolHandler", "AgentPluginHandler", "WebTools"})
    => /\ stop_log.raised = ""
       /\ sessions = {}
       /\ server_registry = <<>>
       /\ tool_registry = <<>>
       /\ agents = {}

\* C12: when stop / cleanup has returned, the cleanup of every agent that
\* was registered was called, in order, whichever of them raised; the exit
\* stack of the tool manager was awaited and its maps were cleared whatever
\* the agents and the exit stack did; and nothing was raised to the caller.
C12_StopAttemptsEveryCleanup ==
    (StopReturned /\ component \in {"ToolManager", "MCPToolHandler", "AgentPluginHandler"})
    => /\ stop_log.attempted = stop_log.registered
       /\ stop_log.failed \subseteq Range(stop_log.attempted)
       /\ stop_log.raised = ""
       /\ component \in {"ToolManager", "MCPToolHandler"} =>
              /\ stop_log.close \in {"closed", "timeout", "error"}
              /\ sessions = {}
              /\ smol_tools = {}
       /\ agents = {}
       /\ server_registry = <<>>
       /\ tool_registry = <<>>

\* C12 witness: the cleanup of the first of two agents raised and the second
\* agent's cleanup was still called.
C12_Witness ==
    /\ StopReturned
    /\ component = "AgentPluginHandler"
    /\ Len(stop_log.attempted) = 2
    /\ stop_log.attempted[1] \in stop_log.failed
    /\ stop_log.attempted[2] \notin stop_log.failed

\* C13: a stop / cleanup that awaits the exit stack always returns, also
\* when closing a session never finishes: the await then ends with the
\* timeout, which is logged and not raised to the caller.
C13_StopTerminates ==
    /\ [](stop_log.close = "timeout" => (rpc = "stopped" /\ stop_log.raised = ""))
    /\ ((rpc = "closing" /\ component \in {"ToolManager", "MCPToolHandler"})
            ~> (rpc = "stopped"))

\* C13 witness: the tool manager's stop returned after closing a session
\* that hangs was cut short by the timeout.
C13_Witness ==
    /\ StopReturned
    /\ component = "ToolManager"
    /\ stop_log.closing = "hangs"
    /\ stop_log.close = "timeout"
    /\ Len(exit_stack) > 0

(***************************************************************************)
(* Serving: concurrent call_tool / list_tools / list_tool_servers          *)
(*                                                                         *)
(* SpecCalls starts where start-up ended (StartedIsSnapshot relates its    *)
(* initial states to the final states of SpecRouter's start-up) and lets   *)
(* the conversations issue requests whose awaits interleave.               *)
(***************************************************************************)
RECURSIVE started_after(_, _, _)
\* The maps after the start-up loop handled the first i configured servers.
started_after(c, b, i) ==
    IF i = 0
    THEN [sessions |-> {}, server_registry |-> <<>>, tool_registry |-> <<>>,
          exit_stack |-> <<>>]
    ELSE LET p == started_after(c, b, i - 1)
             s == Servers[i]
         IN  IF b[i] \in {"type", "connect"} THEN p
             ELSE IF b[i] = "session"
             THEN [p EXCEPT !.exit_stack = Append(@, entered("stdio_client", s))]
             ELSE LET q == [p EXCEPT !.exit_stack =
                                @ \o <<entered("stdio_client", s), entered("session", s)>>]
                  IN  IF b[i] = "handshake" THEN q
                      ELSE LET r == [q EXCEPT
                                       !.sessions = @ \cup {s},
                                       !.server_registry = Put(@, s, registry_value(c))]
                           IN  IF b[i] = "discover" THEN r
                               ELSE [r EXCEPT !.tool_registry =
                                        register_tools(@, s, ToolsOf(s), c)]

\* The maps when start / initialize has returned.
started(c, b) ==
    LET p == started_after(c, b, Len(Servers))
    IN  IF c = "ToolManager"
        THEN [p EXCEPT
                !.server_registry = builtins_registered(@, Len(BuiltinTools)),
                !.tool_registry = builtin_tools_registered(@, Len(BuiltinTools))]
        ELSE p

\* Start-up ends in exactly the state `started` computes.
StartedIsSnapshot ==
    rpc = "started" =>
        /\ sessions = started(component, behaviour).sessions
        /\ server_registry = started(component, behaviour).server_registry
        /\ tool_registry = started(component, behaviour).tool_registry
        /\ exit_stack = started(component, behaviour).exit_stack
        /\ smol_tools = (IF component = "ToolManager" THEN Range(BuiltinTools) ELSE {})
        /\ attempted = Servers
        /\ cur = Len(Servers) + 1
        /\ stage = "connect"

\* How the servers behaved at start-up, in the runs SpecCalls continues.
ServeBehaviours == {"ok", "connect", "discover"}

\* The identifiers requested: per server its first listed tool and a tool
\* it does not have, a name with the other separator, an unknown server,
\* and a bare function name.
ServeNames ==
    UNION {{registry_key(s, t) :
               t \in {<<"nope">>} \cup
                     (IF s \in Range(BuiltinTools) THEN {s}
                      ELSE IF Len(ToolsOf(s)) = 0 THEN {}
                      ELSE {ToolsOf(s)[1]})} : s \in AllServers}
    \cup {api_tool_name(<<"files">>, <<"read">>), registry_key(<<"ghost">>, <<"x">>),
          <<"web_search">>}

\* The servers whose tools are listed.
ListNames == AllServers \cup {<<"ghost">>}

\* A slip: a timed-out call tears down every session.
drop_sessions_on_timeout(sess, server, outcome) ==
    IF outcome = "timeout" THEN {} ELSE sess

\* call_tool, `except asyncio.TimeoutError: log; raise TimeoutError(...)`
\* and `except Exception: log; raise`: the sessions after a call ended.
sessions_after_call(sess, server, outcome) == sess

\* A slip: a listing writes what it found into the registry.
refresh_registry_on_list(reg, server, outcome) ==
    IF outcome = "ok" /\ server \in Range(Servers)
    THEN register_tools(reg, server, ToolsOf(server), component)
    ELSE reg

\* list_tools, `return tools`: the tool registry after a listing ended.
registry_after_list(reg, server, outcome) == reg

\* A listing answered without a backend (a built-in tool lists itself).
Listed(server_name) ==
    [name |-> server_name, status |-> "returned", error |-> "",
     server |-> server_name, tool |-> <<>>, backend |-> <<>>]

\* ToolManager.list_tools
ToolManager_list_tools(server_name, outcome) ==
    IF server_name \notin DOMAIN server_registry
    THEN CallRaised(server_name, "ValueError")
    ELSE IF server_registry[server_name] = "smolagents_tool"
    THEN IF server_name \notin smol_tools
         THEN CallRaised(server_name, "ValueError")
         ELSE Listed(server_name)
    ELSE IF server_name \notin sessions
    THEN CallRaised(server_name, "ValueError")
    ELSE CallReached(server_name, server_name, <<"list_tools">>, outcome)

\* MCPToolHandler.list_tools
MCPToolHandler_list_tools(server_name, outcome) ==
    IF server_name \notin sessions
    THEN CallRaised(server_name, "ValueError")
    ELSE CallReached(server_name, server_name, <<"list_tools">>, outcome)

list_tools(server_name, outcome) ==
    IF component = "ToolManager"
    THEN ToolManager_list_tools(server_name, outcome)
    ELSE MCPToolHandler_list_tools(server_name, outcome)

\* Whether the backend of a routed call is awaited: sessions and the async
\* functions of a toolset are; a built-in tool of the tool manager runs
\* inside call_tool without an await.
Awaited(r) == ~(component = "ToolManager" /\ r.server \in Range(BuiltinTools))

\* What an awaited backend may end with (only sessions run under wait_for).
EndOutcomes == IF component = "WebTools" THEN {"ok", "error"}
               ELSE {"ok", "timeout", "error"}

ServeInit ==
    /\ ChatInitValues
    /\ ExtInitValues
    /\ rpc = "started"
    /\ component \in {"ToolManager", "MCPToolHandler", "WebTools"}
    /\ IF component = "WebTools"
       THEN /\ behaviour = [i \in 1..MaxServers |-> "ok"]
            /\ sessions = {}
            /\ server_registry = <<>>
            /\ tool_registry = <<>>
            /\ exit_stack = <<>>
            /\ toolset_tools = WebToolNames
            /\ web_client = "open"
            /\ cur = 0
            /\ stage = "none"
            /\ attempted = <<>>
       ELSE /\ behaviour \in [1..MaxServers -> ServeBehaviours]
            /\ sessions = started(component, behaviour).sessions
            /\ server_registry = started(component, behaviour).server_registry
            /\ tool_registry = started(component, behaviour).tool_registry
            /\ exit_stack = started(component, behaviour).exit_stack
            /\ toolset_tools = {}
            /\ web_client = "None"
            /\ cur = Len(Servers) + 1
            /\ stage = "connect"
            /\ attempted = Servers
    /\ smol_tools = (IF component = "ToolManager" THEN Range(BuiltinTools) ELSE {})
    /\ last_init_error =
           (IF \E i \in 1..MaxServers : behaviour[i] # "ok" THEN "TimeoutError" ELSE "")
    /\ last_call = NoCall
    /\ agents = {}
    /\ stop_log = NoStop
    /\ stops = 0
    /\ conv = [c \in Conversations |-> NoRequest]

ServeUnchanged ==
    UNCHANGED <<rpc, component, behaviour, cur, stage, smol_tools, attempted,
                last_init_error, last_call, exit_stack, agents, toolset_tools,
                web_client, stop_log, stops>>

\* A conversation calls call_tool: the request is rejected, or answered by a
\* built-in tool, or its backend call is now awaited.
CallBegins(c) ==
    /\ rpc = "started"
    /\ conv[c].r.status # "pending"
    /\ \E name \in ServeNames :
        LET routed == call_tool(name, "ok")
        IN  IF routed.backend = <<>>
            THEN conv' = [conv EXCEPT ![c] =
                            [op |-> "call_tool", outcome |-> "", r |-> routed]]
            ELSE IF Awaited(routed)
            THEN conv' = [conv EXCEPT ![c] =
                            [op |-> "call_tool", outcome |-> "",
                             r |-> [routed EXCEPT !.status = "pending"]]]
            ELSE \E outcome \in {"ok", "error"} :
                    conv' = [conv EXCEPT ![c] =
                                [op |-> "call_tool", outcome |-> outcome,
                                 r |-> call_tool(name, outcome)]]
    /\ UNCHANGED <<sessions, server_registry, tool_registry>>
    /\ ServeUnchanged
    /\ UNCHANGED <<chatVars, extVars>>

\* The awaited backend call of a conversation ends: it returned, it raised,
\* or wait_for cut it short.
CallEnds(c) ==
    /\ rpc = "started"
    /\ conv[c].op = "call_tool"
    /\ conv[c].r.status = "pending"
    /\ \E outcome \in EndOutcomes :
        /\ conv' = [conv EXCEPT ![c] =
                      [op |-> "call_tool", outcome |-> outcome,
                       r |-> CallReached(conv[c].r.name, conv[c].r.server,
                                         conv[c].r.tool, outcome)]]
        /\ sessions' = sessions_after_call(sessions, conv[c].r.server, outcome)
    /\ UNCHANGED <<server_registry, tool_registry>>
    /\ ServeUnchanged
    /\ UNCHANGED <<chatVars, extVars>>

\* A conversation calls list_tools for a server.
ListBegins(c) ==
    /\ rpc = "started"
    /\ component \in {"ToolManager", "MCPToolHandler"}
    /\ conv[c].r.status # "pending"
    /\ \E server_name \in ListNames :
        LET routed == list_tools(server_name, "ok")
        IN  conv' = [conv EXCEPT ![c] =
                       [op |-> "list_tools", outcome |-> "",
                        r |-> IF routed.backend = <<>> THEN routed
                              ELSE [routed EXCEPT !.status = "pending"]]]
    /\ UNCHANGED <<sessions, server_registry, tool_registry>>
    /\ ServeUnchanged
    /\ UNCHANGED <<chatVars, extVars>>

\* The awaited session.list_tools() of a conversation ends.
ListEnds(c) ==
    /\ rpc = "started"
    /\ conv[c].op = "list_tools"
    /\ conv[c].r.status = "pending"
    /\ \E outcome \in EndOutcomes :
        /\ conv' = [conv EXCEPT ![c] =
                      [op |-> "list_tools", outcome |-> outcome,
                       r |-> CallReached(conv[c].r.name, conv[c].r.server,
                                         conv[c].r.tool, outcome)]]
        /\ tool_registry' =
               registry_after_list(tool_registry, conv[c].r.server, outcome)
    /\ UNCHANGED <<sessions, server_registry>>
    /\ ServeUnchanged
    /\ UNCHANGED <<chatVars, extVars>>

\* A conversation calls list_tool_servers: the keys of the server registry.
ListToolServers(c) ==
    /\ rpc = "started"
    /\ component = "ToolManager"
    /\ conv[c].r.status # "pending"
    /\ conv' = [conv EXCEPT ![c] =
                  [op |-> "list_tool_servers", outcome |-> "",
                   r |-> [NoCall EXCEPT !.status = "returned"]]]
    /\ UNCHANGED <<sessions, server_registry, tool_registry>>
    /\ ServeUnchanged
    /\ UNCHANGED <<chatVars, extVars>>

ServeNext ==
    \E c \in Conversations :
        \/ CallBegins(c)
        \/ CallEnds(c)
        \/ ListBegins(c)
        \/ ListEnds(c)
        \/ ListToolServers(c)

SpecCalls == ServeInit /\ [][ServeNext]_vars

(***************************************************************************)
(* Properties of serving                                                   *)
(***************************************************************************)
\* The tool-registry keys of a server in a registry.
KeysOf(reg, server) == {k \in DOMAIN reg : split_colon(k).server = server}

\* Conversation c's awaited call is cut short by the timeout in this step.
TimesOut(c) ==
    /\ conv[c].op = "call_tool"
    /\ conv[c].r.status = "pending"
    /\ conv'[c].outcome = "timeout"

\* C14: a tool call that exceeds its timeout ends with TimeoutError raised
\* to its caller; in that step the session, the server-registry entry and
\* the tool-registry entries of every other server, and every other
\* conversation's request in flight, stay as they were; and at all times
\* every server that start-up initialized other than one a call timed out on
\* still has its session and its registered tools still resolve.
C14_TimeoutIsolated ==
    /\ [][\A c \in Conversations :
            TimesOut(c) =>
                /\ conv'[c].r.status = "raised"
                /\ conv'[c].r.error = "TimeoutError"
                /\ \A d \in Conversations \ {c} : conv'[d] = conv[d]
                /\ \A s \in AllServers \ {conv[c].r.server} :
                      /\ (s \in sessions') = (s \in sessions)
                      /\ (s \in DOMAIN server_registry') = (s \in DOMAIN server_registry)
                      /\ KeysOf(tool_registry', s) = KeysOf(tool_registry, s)]_vars
    /\ [](\A c \in Conversations :
            conv[c].r.error = "TimeoutError" =>
                \A s \in started(component, behaviour).sessions \ {conv[c].r.server} :
                    /\ s \in sessions
                    /\ \A k \in KeysOf(started(component, behaviour).tool_registry, s) :
                          call_tool(k, "ok").status = "returned")

\* C14 witness: a call to one server timed out while another conversation's
\* call to another server is still in flight.
C14_Witness ==
    /\ conv["c1"].r.error = "TimeoutError"
    /\ conv["c1"].r.server = <<"files">>
    /\ conv["c2"].op = "call_tool"
    /\ conv["c2"].r.status = "pending"
    /\ conv["c2"].r.server = <<"db">>

\* Whether the identifier of a request names something registered.
Registered(q) ==
    IF component = "WebTools" THEN q.r.name \in toolset_tools
    ELSE IF q.op = "call_tool" THEN q.r.name \in DOMAIN tool_registry
    ELSE q.r.name \in DOMAIN server_registry

\* C15: a call of the tool manager or of a toolset, and a listing of the
\* tool manager, for an identifier whose server or tool is not registered
\* ends by raising ValueError to the caller, never by returning, and invokes
\* no backend.
C15_UnregisteredRaises ==
    \A c \in Conversations :
        (/\ component \in {"ToolManager", "WebTools"}
         /\ conv[c].op \in {"call_tool", "list_tools"}
         /\ ~Registered(conv[c]))
        => /\ conv[c].r.status = "raised"
           /\ conv[c].r.error = "ValueError"
           /\ conv[c].r.backend = <<>>

\* C15 witness: the tool manager was asked for a tool its registered server
\* `files` does not have, and for the tools of a server it does not know.
C15_Witness ==
    /\ component = "ToolManager"
    /\ <<"files">> \in sessions
    /\ conv["c1"].op = "call_tool"
    /\ conv["c1"].r.name = registry_key(<<"files">>, <<"nope">>)
    /\ conv["c1"].r.status = "raised"
    /\ conv["c2"].op = "list_tools"
    /\ conv["c2"].r.name = <<"ghost">>
    /\ conv["c2"].r.status = "raised"

\* C16: a call_tool invokes its backend at most once, and when the backend
\* failed (raised, or was cut short by the timeout) the call ends by raising
\* that failure: it is not retried and not turned into a returned value.
C16_NoRetryNoSwallow ==
    \A c \in Conversations :
        conv[c].op = "call_tool" =>
            /\ Len(conv[c].r.backend) <= 1
            /\ conv[c].outcome = "error" =>
                  (conv[c].r.status = "raised" /\ conv[c].r.error = "Exception")
            /\ conv[c].outcome = "timeout" =>
                  (conv[c].r.status = "raised" /\ conv[c].r.error = "TimeoutError")
            /\ conv[c].r.status = "returned" => conv[c].outcome = "ok"

\* C16 witness: a backend raised and the call raised after that one
\* invocation.
C16_Witness ==
    /\ conv["c1"].op = "call_tool"
    /\ conv["c1"].outcome = "error"
    /\ conv["c1"].r.status = "raised"
    /\ Len(conv["c1"].r.backend) = 1
    /\ conv["c1"].r.server = <<"files">>

\* C17: after start-up no step of call_tool, list_tools or list_tool_servers,
\* however the requests of the conversations interleave, changes the
\* sessions, the server registry, the tool registry or the built-in tools.
C17_RegistriesReadOnly ==
    [][/\ sessions' = sessions
       /\ server_registry' = server_registry
       /\ tool_registry' = tool_registry
       /\ smol_tools' = smol_tools
       /\ toolset_tools' = toolset_tools]_vars

\* C17 witness: a listing for a server whose discovery had failed at
\* start-up returned while another conversation's call was in flight, and
\* the server still has no tools registered.
C17_Witness ==
    /\ component = "ToolManager"
    /\ behaviour[1] = "discover"
    /\ conv["c1"].op = "list_tools"
    /\ conv["c1"].r.server = Servers[1]
    /\ conv["c1"].r.status = "returned"
    /\ conv["c2"].r.status = "pending"
    /\ KeysOf(tool_registry, Servers[1]) = {}

(***************************************************************************)
(* Creation of a chatbot and the pending-approval result                   *)
(*                                                                         *)
(* SpecCreate creates the chatbot in each of the ways the code offers,     *)
(* with and without a max_iterations argument, and runs chat with a model  *)
(* that proposes at most one plain tool call per reply.                    *)
(***************************************************************************)
InitCreate ==
    /\ RouterInitValues
    /\ ExtInitValues
    /\ pc = "Idle"
    /\ construction \in [by : Creations,
                         arg : {NotGiven} \cup {Given(n) : n \in 1..MaxIterations}]
    /\ proposals = {<<>>, <<"files__read">>}
    /\ system_prompt \in {"", "be brief"}
    /\ max_iterations = created_max_iterations(construction.by, construction.arg)
    /\ messages \in InitialTranscripts
    /\ iteration = 0
    /\ reply = NoReply
    /\ idx = 0
    /\ all_tool_calls = <<>>
    /\ result = NoResult
    /\ raised = ""
    /\ executed = <<>>
    /\ history = <<>>

SpecCreate == InitCreate /\ [][Next]_vars

\* C18 (as claimed): a run that returned a pending-approval result is
\* resumed once the calls are resolved: from that state the engine takes a
\* further step (it executes an approved call, answers a denied one with a
\* tool message, or calls the model again).
C18_ResumeAfterApproval == pc = "PendingApproval" => ENABLED Next

\* C19: a pending-approval result carries, for every tool call of the
\* model's reply, in the reply's order and once each, the call's id, its
\* tool name and its arguments as an object (decoded when the provider sent
\* JSON text), and with them the assistant message that proposed the calls.
C19_PendingApprovalPayload ==
    pc = "PendingApproval" =>
        /\ result.pending_approval
        /\ result.message = reply
        /\ Len(result.tool_calls) = Len(reply.tool_calls)
        /\ \A i \in 1..Len(reply.tool_calls) :
              /\ result.tool_calls[i].id = reply.tool_calls[i].id
              /\ result.tool_calls[i].name = reply.tool_calls[i].name
              /\ ~result.tool_calls[i].arguments.is_str
              /\ result.tool_calls[i].arguments =
                    (IF reply.tool_calls[i].arguments.is_str
                     THEN json_loads(reply.tool_calls[i].arguments.str)
                     ELSE reply.tool_calls[i].arguments)
        /\ \A i, j \in 1..Len(result.tool_calls) :
              result.tool_calls[i].id = result.tool_calls[j].id => i = j

\* C19 witness: the reply proposed a flagged call with JSON-text arguments
\* and then a plain call with object arguments; both are in the result.
C19_Witness ==
    /\ pc = "PendingApproval"
    /\ Len(reply.tool_calls) = 2
    /\ reply.tool_calls[1].name = "files__delete"
    /\ reply.tool_calls[1].arguments.is_str
    /\ reply.tool_calls[2].name = "files__read"
    /\ result.tool_calls[1].arguments = Object(<< <<"path", "a">> >>)
    /\ result.tool_calls[2].arguments = Object(<< <<"path", "b">> >>)

\* C20: chat never makes more model calls than max_iterations, and a chatbot
\* created without a max_iterations argument, by its constructor or by the
\* factory, has max_iterations 5.
C20_IterationsBounded ==
    /\ iteration <= max_iterations
    /\ (~construction.arg.given) => max_iterations = 5

\* C20 witness: a chatbot the factory created without max_iterations made
\* its fifth model call and ended with the max-iterations result.
C20_Witness ==
    /\ construction.by = "create_chatbot_provider"
    /\ ~construction.arg.given
    /\ iteration = 5
    /\ pc = "MaxIterations"

(***************************************************************************)
(* Agent plugin discovery: AgentPluginHandler.initialize loading one       *)
(* SmolAgentPlugin per file of the agents directory                        *)
(* (agentkit/tools/agent_handler.py, agentkit/tools/smolagents.py).        *)
(*   SpecPlugins  the discovery loop, for every `tool_servers` of every    *)
(*                plugin and every order in which glob yields the files    *)
(***************************************************************************)

\* The names a plugin's configuration may list in `tool_servers`: the first
\* configured MCP server, the first built-in tool, and the plugins themselves.
ToolServerNames == {Servers[1], BuiltinTools[1]} \cup Range(AgentPlugins)

\* The orders in which the directory listing may yield the plugin files.
DiscoveryOrders ==
    {o \in [1..Len(AgentPlugins) -> Range(AgentPlugins)] :
        \A i, j \in 1..Len(AgentPlugins) : o[i] = o[j] => i = j}

\* tool_manager.get_server_type(server_name): the kind of a registered
\* server, "None" for a name that is not registered (yet).
get_server_type(server_name, registered) ==
    IF server_name \in registered THEN "smolagents_agent"
    ELSE IF server_name \in Range(BuiltinTools) THEN "smolagents_tool"
    ELSE IF server_name \in Range(Servers) THEN "mcp"
    ELSE "None"

\* SmolAgentsAgent.initialize: the loop over self.tool_servers. An MCP
\* server adds nothing, a built-in tool is appended to `tools`, a server
\* that is an agent raises ValueError, any other name is passed over.
SmolAgentsAgent_initialize(servers, registered) ==
    IF \E s \in servers : get_server_type(s, registered) = "smolagents_agent"
    THEN [raised |-> "ValueError", tools |-> {}]
    ELSE [raised |-> "",
          tools |-> {s \in servers :
                        get_server_type(s, registered) = "smolagents_tool"}]

PluginsInit ==
    /\ ChatInitValues
    /\ rpc = "constructed"
    /\ component = "AgentPluginHandler"
    /\ behaviour = [i \in 1..MaxServers |-> "ok"]
    /\ cur = 0
    /\ stage = "none"
    /\ sessions = {}
    /\ server_registry = <<>>
    /\ tool_registry = <<>>
    /\ smol_tools = {}
    /\ attempted = <<>>
    /\ last_init_error = ""
    /\ last_call = NoCall
    /\ LifeInitValues
    /\ plugin_servers \in [Range(AgentPlugins) -> SUBSET ToolServerNames]
    /\ discovery \in DiscoveryOrders
    /\ agent_tools = <<>>
    /\ OtherInitValues("plugin")

PluginsUnchanged ==
    /\ UNCHANGED <<chatVars, component, behaviour, cur, stage, sessions, smol_tools,
                   attempted, last_call, exit_stack, toolset_tools, web_client,
                   stop_log, stops, conv, plugin_servers>>
    /\ OthersUnchanged("plugin")

\* One iteration of the loop over the plugin files whose body completes:
\* `agent.initialize()` returned, the agent is registered.
PluginLoads ==
    /\ component = "AgentPluginHandler"
    /\ rpc \in {"constructed", "starting"}
    /\ discovery # <<>>
    /\ LET name == Head(discovery)
           made == SmolAgentsAgent_initialize(plugin_servers[name], agents)
       IN /\ made.raised = ""
          /\ agents' = agents \cup {name}
          /\ agent_tools' = Put(agent_tools, name, made.tools)
          /\ tool_registry' = Put(tool_registry, registry_key(name, name), "True")
          /\ server_registry' = Put(server_registry, name, "True")
    /\ discovery' = Tail(discovery)
    /\ rpc' = "starting"
    /\ UNCHANGED last_init_error
    /\ PluginsUnchanged

\* One iteration whose body raises: `except Exception` logs and the loop
\* goes on with the next file.
PluginRejected ==
    /\ component = "AgentPluginHandler"
    /\ rpc \in {"constructed", "starting"}
    /\ discovery # <<>>
    /\ LET name == Head(discovery)
           made == SmolAgentsAgent_initialize(plugin_servers[name], agents)
       IN /\ made.raised # ""
          /\ last_init_error' = made.raised
    /\ discovery' = Tail(discovery)
    /\ rpc' = "starting"
    /\ UNCHANGED <<agents, agent_tools, tool_registry, server_registry>>
    /\ PluginsUnchanged

\* The loop is through: initialize returns.
DiscoveryCompletes ==
    /\ component = "AgentPluginHandler"
    /\ rpc \in {"constructed", "starting"}
    /\ discovery = <<>>
    /\ rpc' = "started"
    /\ UNCHANGED <<agents, agent_tools, tool_registry, server_registry,
                   last_init_error, discovery>>
    /\ PluginsUnchanged

PluginsNext ==
    \/ PluginLoads
    \/ PluginRejected
    \/ DiscoveryCompletes

SpecPlugins == PluginsInit /\ [][PluginsNext]_vars

MaxDepth == 2        \* largest number of toolset functions running at once

\* The registered toolsets (ToolSetHandler subclasses) and their functions.
Toolsets == {<<"web_tools">>, <<"digest">>}

ToolsetFunctions(server) ==
    IF server = <<"web_tools">> THEN WebToolNames
    ELSE IF server = <<"digest">> THEN {<<"summarize">>}
    ELSE {}

\* The router's call(identifier, args) as a toolset reaches it: the
\* identifier is split on the server separator "__" and the call is
\* delegated to the handler owning the server. "enter" stands for the
\* toolset function that is now to run.
Router_call(identifier, outcome) ==
    LET k == FirstIndex(identifier, "__")
        server == SubSeq(identifier, 1, k - 1)
        tool == SubSeq(identifier, k + 1, Len(identifier))
    IN  IF k = 0 THEN CallRaised(identifier, "ValueError")
        ELSE IF server \in Toolsets
        THEN IF tool \notin ToolsetFunctions(server)
             THEN CallRaised(identifier, "ValueError")
             ELSE [CallReached(identifier, server, tool, outcome)
                       EXCEPT !.status = "enter"]
        ELSE IF server \in Range(Servers)
        THEN CallReached(identifier, server, tool, outcome)
        ELSE CallRaised(identifier, "ValueError")

\* ToolSetHandler.call_other_tool
call_other_tool(server_name, tool_name, outcome) ==
    IF toolset_manager = "None"
    THEN CallRaised(call_other_tool_name(server_name, tool_name), "RuntimeError")
    ELSE Router_call(call_other_tool_name(server_name, tool_name), outcome)

ToolsetInit ==
    /\ ChatInitValues
    /\ rpc = "started"
    /\ component = "ToolSetHandler"
    /\ behaviour = [i \in 1..MaxServers |-> "ok"]
    /\ cur = 0
    /\ stage = "none"
    /\ sessions = Range(Servers)
    /\ server_registry = <<>>
    /\ tool_registry = <<>>
    /\ smol_tools = {}
    /\ attempted = <<>>
    /\ last_init_error = ""
    /\ last_call = NoCall
    /\ exit_stack = <<>>
    /\ agents = {}
    /\ toolset_tools = UNION {ToolsetFunctions(s) : s \in Toolsets}
    /\ web_client = "open"
    /\ stop_log = NoStop
    /\ stops = 0
    /\ conv = [c \in Conversations |-> NoRequest]
    /\ OtherInitValues("toolset")
    /\ toolset_manager \in {"None", "set"}
    /\ call_stack = <<>>

ToolsetUnchanged ==
    /\ UNCHANGED <<chatVars, rpc, component, behaviour, cur, stage, sessions,
                   server_registry, tool_registry, smol_tools, attempted,
                   last_init_error, exit_stack, lifeVars, toolset_manager>>
    /\ OthersUnchanged("toolset")

\* ToolSetHandler.call_tool, lines 62-72: a registered function of a toolset
\* is called from outside and starts to run.
ToolsetCallTool ==
    /\ component = "ToolSetHandler"
    /\ call_stack = <<>>
    /\ \E server \in Toolsets :
        \E tool_name \in ToolsetFunctions(server) :
            /\ call_stack' = <<[server |-> server, tool |-> tool_name]>>
            /\ last_call' = [CallReached(tool_name, server, tool_name, "ok")
                                EXCEPT !.status = "enter"]
    /\ ToolsetUnchanged

\* The running function awaits self.call_other_tool(server_name, tool_name,
\* arguments): the call raises, returns a backend's answer, or enters the
\* toolset function it was delegated to.
CallOtherTool ==
    /\ component = "ToolSetHandler"
    /\ call_stack # <<>>
    /\ \E server_name \in Toolsets \cup {Servers[1], <<"nope">>} :
        \E tool_name \in ToolsetFunctions(server_name) \cup {<<"read">>} :
            \E outcome \in {"ok", "error"} :
                LET made == call_other_tool(server_name, tool_name, outcome)
                IN  /\ made.status = "enter" => Len(call_stack) < MaxDepth
                    /\ last_call' = made
                    /\ call_stack' =
                           IF made.status = "enter"
                           THEN Append(call_stack,
                                       [server |-> made.server, tool |-> made.tool])
                           ELSE call_stack
    /\ ToolsetUnchanged

\* The innermost running function returns or raises: ToolSetHandler.call_tool
\* hands its result to the caller.
ToolsetFunctionEnds ==
    /\ component = "ToolSetHandler"
    /\ call_stack # <<>>
    /\ call_stack' = SubSeq(call_stack, 1, Len(call_stack) - 1)
    /\ \E outcome \in {"ok", "error"} :
        last_call' = LET top == call_stack[Len(call_stack)]
                     IN  CallReached(top.tool, top.server, top.tool, outcome)
    /\ ToolsetUnchanged

ToolsetNext ==
    \/ ToolsetCallTool
    \/ CallOtherTool
    \/ ToolsetFunctionEnds

SpecToolset == ToolsetInit /\ [][ToolsetNext]_vars

MaxMessages == 2     \* largest number of messages handed to chat_completion

Texts == {<<>>, <<"a">>, <<"b", "\n\n", "c">>}

\* Python's None where a text is expected.
NoneText == <<"None">>

\* The tool_calls lists of assistant messages: ids may repeat.
ApiToolCalls ==
    LET tc(i) == [id |-> i, name |-> "files__read",
                  arguments |-> JsonText(IF i = 1 THEN "{}" ELSE "{\"path\": \"a\"}")]
    IN  {<<tc(1)>>, <<tc(1), tc(2)>>, <<tc(2), tc(1)>>, <<tc(1), tc(1)>>}

ApiMsg(role, content, tool_calls, tool_call_id) ==
    [role |-> role, content |-> content, tool_calls |-> tool_calls,
     tool_call_id |-> tool_call_id]

\* The messages chat and the chat service hand to a client (chatbot.py:98,
\* 170, 200; chat_service.py:120, 191, 194).
ApiMessages ==
    {ApiMsg(r, t, <<>>, 0) : r \in {"system", "developer", "user", "assistant"},
                            t \in Texts}
    \cup {ApiMsg("assistant", t, c, 0) : t \in {<<>>, <<"a">>}, c \in ApiToolCalls}
    \cup {ApiMsg("tool", <<"a">>, <<>>, i) : i \in 1..2}

\* A content block of the Anthropic wire format. For a tool_result block
\* `id` is its tool_use_id and `text` its content.
Block(type, text, id, name, input) ==
    [type |-> type, text |-> text, id |-> id, name |-> name, input |-> input]

\* sep.join(texts)
RECURSIVE join(_, _)
join(sep, texts) ==
    IF Len(texts) = 0 THEN <<>>
    ELSE IF Len(texts) = 1 THEN texts[1]
    ELSE texts[1] \o sep \o join(sep, Tail(texts))

\* json.dumps of a decoded arguments object.
json_dumps(obj) ==
    IF obj.dict = <<>> THEN "{}"
    ELSE IF obj.dict = << <<"path", "a">> >> THEN "{\"path\": \"a\"}"
    ELSE "{\"query\": \"q\"}"

\* OpenAIClient.chat_completion, lines 70-82: the messages are passed on.
OpenAIClient_request(msgs) ==
    [made |-> TRUE, system |-> NoneText, messages |-> msgs]

\* A slip: messages of role "developer" are not taken for system messages.
request_without_developer(msgs) ==
    LET system_messages == SelectSeq(msgs, LAMBDA m : m.role = "system")
        system_text == IF Len(system_messages) = 0 THEN NoneText
                         ELSE join(<<"\n\n">>,
                                   [i \in 1..Len(system_messages) |->
                                       system_messages[i].content])
        kept == SelectSeq(msgs, LAMBDA m : m.role \in {"assistant", "user", "tool"})
    IN  [made |-> TRUE,
         system |-> IF system_text = <<>> THEN NoneText ELSE system_text,
         messages |-> [i \in 1..Len(kept) |->
                          [role |-> kept[i].role, is_blocks |-> FALSE,
                           content |-> kept[i].content, blocks |-> <<>>]]]

\* AnthropicClient.chat_completion, lines 118-196: the system / developer
\* messages are joined into `system` (left out when empty); every other
\* message becomes an Anthropic message whose content is a text or a list of
\* content blocks.
AnthropicClient_request(msgs) ==
    LET system_messages ==
            SelectSeq(msgs, LAMBDA m : m.role \in {"system", "developer"})
        system_text == IF Len(system_messages) = 0 THEN NoneText
                         ELSE join(<<"\n\n">>,
                                   [i \in 1..Len(system_messages) |->
                                       system_messages[i].content])
        kept == SelectSeq(msgs, LAMBDA m : m.role \in {"assistant", "user", "tool"})
        tool_use(tc) ==
            Block("tool_use", <<>>, tc.id, tc.name,
                  IF tc.arguments.is_str THEN json_loads(tc.arguments.str)
                  ELSE tc.arguments)
        anthropic_msg(m) ==
            IF m.tool_calls # <<>>
            THEN [role |-> m.role, is_blocks |-> TRUE, content |-> <<>>,
                  blocks |-> (IF m.content # <<>>
                              THEN <<Block("text", m.content, 0, "", Object(<<>>))>>
                              ELSE <<>>)
                             \o [j \in 1..Len(m.tool_calls) |-> tool_use(m.tool_calls[j])]]
            ELSE IF m.role = "tool"
            THEN [role |-> "user", is_blocks |-> TRUE, content |-> <<>>,
                  blocks |-> <<Block("tool_result", m.content, m.tool_call_id, "",
                                     Object(<<>>))>>]
            ELSE [role |-> m.role, is_blocks |-> FALSE, content |-> m.content,
                  blocks |-> <<>>]
    IN  [made |-> TRUE,
         system |-> IF system_text = <<>> THEN NoneText ELSE system_text,
         messages |-> [i \in 1..Len(kept) |-> anthropic_msg(kept[i])]]

\* A slip: only the first tool_use block of a response is converted.
convert_first_tool_use_only(resp) ==
    LET texts == SelectSeq(resp.content, LAMBDA b : b.type = "text")
        uses == SelectSeq(resp.content, LAMBDA b : b.type = "tool_use")
    IN  [made |-> TRUE,
         choices |-> <<[message |->
             [role |-> "assistant",
              content |-> IF Len(texts) = 0 THEN NoneText
                          ELSE join(<<"\n">>, [i \in 1..Len(texts) |-> texts[i].text]),
              tool_calls |-> [i \in 1..(IF Len(uses) = 0 THEN 0 ELSE 1) |->
                                 [id |-> uses[i].id, name |-> uses[i].name,
                                  arguments |-> json_dumps(uses[i].input)]]]]>>]

\* AnthropicClient._convert_response_to_openai: the text blocks joined by
\* "\n" (None when there is none), one tool_calls entry per tool_use block.
convert_response_to_openai(resp) ==
    LET texts == SelectSeq(resp.content, LAMBDA b : b.type = "text")
        uses == SelectSeq(resp.content, LAMBDA b : b.type = "tool_use")
    IN  [made |-> TRUE,
         choices |-> <<[message |->
             [role |-> "assistant",
              content |-> IF Len(texts) = 0 THEN NoneText
                          ELSE join(<<"\n">>, [i \in 1..Len(texts) |-> texts[i].text]),
              tool_calls |-> [i \in 1..Len(uses) |->
                                 [id |-> uses[i].id, name |-> uses[i].name,
                                  arguments |-> json_dumps(uses[i].input)]]]]>>]

\* What the backend may answer: the content blocks of a response.
Responses ==
    LET text(t) == Block("text", t, 0, "", Object(<<>>))
        use(i) == Block("tool_use", <<>>, i, "files__read",
                        IF i = 1 THEN Object(<<>>) ELSE Object(<< <<"path", "a">> >>))
    IN  {<<>>, <<text(<<"a">>)>>, <<use(1)>>, <<text(<<"a">>), use(1), use(2)>>,
         <<use(2), text(<<"a">>), use(1)>>, <<use(1), use(1)>>}

AdapterInit ==
    /\ ChatInitValues
    /\ RouterInitValues
    /\ OtherInitValues("adapter")
    /\ client \in {"openai", "anthropic"}
    /\ api_messages = <<>>
    /\ request = [made |-> FALSE, system |-> <<>>, messages |-> <<>>]
    /\ response = [made |-> FALSE, content |-> <<>>]
    /\ completion = [made |-> FALSE, choices |-> <<>>]

AdapterUnchanged ==
    /\ UNCHANGED <<chatVars, rpc, component, behaviour, cur, stage, sessions,
                   server_registry, tool_registry, smol_tools, attempted,
                   last_init_error, last_call, exit_stack, lifeVars, client>>
    /\ OthersUnchanged("adapter")

\* chat_completion up to the call of the backend: the request is built.
\* (The clients keep nothing between calls: one call is followed.)
ChatCompletionCalled ==
    /\ ~request.made
    /\ \E msgs \in SeqsUpTo(ApiMessages, MaxMessages) :
        /\ api_messages' = msgs
        /\ request' = IF client = "openai" THEN OpenAIClient_request(msgs)
                      ELSE AnthropicClient_request(msgs)
    /\ response' = [made |-> FALSE, content |-> <<>>]
    /\ completion' = [made |-> FALSE, choices |-> <<>>]
    /\ AdapterUnchanged

\* The backend answers and chat_completion returns: `response.model_dump()`
\* for OpenAI, the converted response for Anthropic.
ChatCompletionReturns ==
    /\ request.made /\ ~completion.made
    /\ \E content \in Responses :
        /\ response' = [made |-> TRUE, content |-> content]
        /\ completion' =
              IF client = "openai"
              THEN [made |-> TRUE,
                    choices |-> <<[message |-> [role |-> "assistant",
                                                content |-> <<"a">>,
                                                tool_calls |-> <<>>]]>>]
              ELSE convert_response_to_openai(response')
    /\ UNCHANGED <<api_messages, request>>
    /\ AdapterUnchanged

AdapterNext ==
    \/ ChatCompletionCalled
    \/ ChatCompletionReturns

SpecAdapter == AdapterInit /\ [][AdapterNext]_vars

ToolFree(msgs) ==
    \A i \in 1..Len(msgs) : msgs[i].role # "tool" /\ msgs[i].tool_calls = <<>>

ContentsOf(msgs) == [i \in 1..Len(msgs) |-> msgs[i].content]

WithoutSeparators(text) == SelectSeq(text, LAMBDA t : t # "\n\n")

RECURSIVE IdsOfMessages(_)
IdsOfMessages(msgs) ==
    IF Len(msgs) = 0 THEN <<>>
    ELSE (IF msgs[1].role = "tool"
          THEN <<[kind |-> "tool_result", id |-> msgs[1].tool_call_id]>>
          ELSE [j \in 1..Len(msgs[1].tool_calls) |->
                   [kind |-> "tool_use", id |-> msgs[1].tool_calls[j].id]])
         \o IdsOfMessages(Tail(msgs))

\* The ids of the tool_use and tool_result blocks of a request, in order.
RECURSIVE IdsOfRequest(_)
IdsOfRequest(msgs) ==
    IF Len(msgs) = 0 THEN <<>>
    ELSE LET keyed == SelectSeq(msgs[1].blocks, LAMBDA b : b.type # "text")
         IN  [j \in 1..Len(keyed) |-> [kind |-> keyed[j].type, id |-> keyed[j].id]]
             \o IdsOfRequest(Tail(msgs))

\* C24: with Anthropic, the tool_use and tool_result blocks of the request
\* carry the ids of the tool calls and tool messages of the input, one block
\* each and in order; the returned completion has one message, whose
\* tool_calls carry the ids of the response's tool_use blocks, one entry each
\* and in order.
C24_CallIdsPreserved ==
    client = "anthropic" =>
        /\ request.made => IdsOfRequest(request.messages) = IdsOfMessages(api_messages)
        /\ completion.made =>
              /\ Len(completion.choices) = 1
              /\ LET uses == SelectSeq(response.content, LAMBDA b : b.type = "tool_use")
                     calls == completion.choices[1].message.tool_calls
                 IN  /\ Len(calls) = Len(uses)
                     /\ \A i \in 1..Len(uses) : calls[i].id = uses[i].id

C24_Witness ==
    /\ client = "anthropic"
    /\ completion.made
    /\ Len(api_messages) = 2
    /\ Len(api_messages[1].tool_calls) = 2
    /\ api_messages[2].role = "tool"
    /\ Len(completion.choices[1].message.tool_calls) = 2

(***************************************************************************)
(* The tools a chat call offers to the model, and the requests the model   *)
(* makes for them (agentkit/chatbots/chatbot.py, lines 102-135 and 194,    *)
(* on a started ToolManager).                                              *)
(*   SpecOffer  chat calls with and without additional tool servers, each  *)
(*              followed by requests for the identifiers it advertised     *)
(***************************************************************************)

\* The tool_servers lists of chatbot configurations (no server twice).
ConfiguredToolServers ==
    {<<>>, <<Servers[1]>>, <<BuiltinTools[1]>>, <<Servers[1], BuiltinTools[1]>>,
     <<Servers[Len(Servers)], Servers[1]>>}

\* The additional_tool_servers arguments (None and [] behave alike).
AdditionalToolServers ==
    {<<>>, <<Servers[1]>>, <<BuiltinTools[2]>>, << <<"ghost">> >>,
     <<BuiltinTools[2], BuiltinTools[2]>>, <<Servers[Len(Servers)], BuiltinTools[2]>>,
     << <<"ghost">>, Servers[1] >>}

\* What a live listing of a server returns: the tools found at start-up, or
\* those and one the server has added since; a built-in tool lists itself.
LiveTools(server, grown) ==
    IF server \in Range(BuiltinTools) THEN <<server>>
    ELSE IF grown THEN Append(ToolsOf(server), <<"added">>) ELSE ToolsOf(server)

\* A slip: an additional server is enabled without asking whether it is
\* registered.
RECURSIVE merge_without_availability(_, _, _)
merge_without_availability(all, additional, available) ==
    IF Len(additional) = 0 THEN all
    ELSE merge_without_availability(
             IF Head(additional) \in Range(all) THEN all
             ELSE Append(all, Head(additional)),
             Tail(additional), available)

\* chat, lines 103-114: `all_tool_servers` after the loop over
\* additional_tool_servers, started from a copy of self.tool_servers.
RECURSIVE merge_tool_servers(_, _, _)
merge_tool_servers(all, additional, available) ==
    IF Len(additional) = 0 THEN all
    ELSE merge_tool_servers(
             IF Head(additional) \notin Range(all) /\ Head(additional) \in available
             THEN Append(all, Head(additional))
             ELSE all,
             Tail(additional), available)

\* chat, lines 116-135: `api_tools`, one entry per tool of every server of
\* all_tool_servers in order; a listing that raises leaves chat.
RECURSIVE build_api_tools(_, _)
build_api_tools(servers, grown) ==
    IF Len(servers) = 0 THEN [raised |-> "", api_tools |-> <<>>]
    ELSE LET listed == ToolManager_list_tools(Head(servers), "ok")
             tools == LiveTools(Head(servers), grown)
             rest == build_api_tools(Tail(servers), grown)
         IN  IF listed.status = "raised"
             THEN [raised |-> listed.error, api_tools |-> <<>>]
             ELSE IF rest.raised # "" THEN rest
             ELSE [raised |-> "",
                   api_tools |->
                       [i \in 1..Len(tools) |->
                           [name |-> api_tool_name(Head(servers), tools[i]),
                            server |-> Head(servers), tool |-> tools[i]]]
                       \o rest.api_tools]

OfferInit ==
    /\ ChatInitValues
    /\ OtherInitValues("offer")
    /\ rpc = "started"
    /\ component = "ToolManager"
    /\ behaviour \in [1..MaxServers -> ServeBehaviours]
    /\ sessions = started(component, behaviour).sessions
    /\ server_registry = started(component, behaviour).server_registry
    /\ tool_registry = started(component, behaviour).tool_registry
    /\ exit_stack = started(component, behaviour).exit_stack
    /\ cur = Len(Servers) + 1
    /\ stage = "connect"
    /\ attempted = Servers
    /\ smol_tools = Range(BuiltinTools)
    /\ last_init_error =
           (IF \E i \in 1..MaxServers : behaviour[i] # "ok" THEN "TimeoutError" ELSE "")
    /\ last_call = NoCall
    /\ toolset_tools = {}
    /\ web_client = "None"
    /\ agents = {}
    /\ stop_log = NoStop
    /\ stops = 0
    /\ conv = [c \in Conversations |-> NoRequest]
    /\ configured \in ConfiguredToolServers
    /\ tool_servers = configured
    /\ offer = NoOffer

OfferUnchanged ==
    /\ UNCHANGED <<chatVars, rpc, component, behaviour, cur, stage, sessions,
                   server_registry, tool_registry, smol_tools, attempted,
                   last_init_error, exit_stack, lifeVars, configured>>
    /\ OthersUnchanged("offer")

\* chat, lines 102-135: a chat call sets up the tools it offers.
ChatOffersTools ==
    /\ \E additional \in AdditionalToolServers, grown \in BOOLEAN :
        LET all == merge_tool_servers(tool_servers, additional,
                                      DOMAIN server_registry)
            built == build_api_tools(all, grown)
        IN  offer' = [made |-> TRUE, additional |-> additional, servers |-> all,
                      api_tools |-> built.api_tools, raised |-> built.raised]
    /\ last_call' = NoCall
    /\ UNCHANGED tool_servers
    /\ OfferUnchanged

\* chat, line 194: the model asked for a tool it was offered and chat hands
\* the identifier to the tool manager.
ModelRequestsTool ==
    /\ offer.made /\ offer.raised = ""
    /\ \E i \in 1..Len(offer.api_tools), outcome \in {"ok", "error"} :
        last_call' = ToolManager_call_tool(offer.api_tools[i].name, outcome)
    /\ UNCHANGED <<tool_servers, offer>>
    /\ OfferUnchanged

OfferNext ==
    \/ ChatOffersTools
    \/ ModelRequestsTool

SpecOffer == OfferInit /\ [][OfferNext]_vars

NoServerTwice(servers) ==
    \A i, j \in 1..Len(servers) : servers[i] = servers[j] => i = j

\* C25: a chat call that set up its tools enables the configured servers
\* first and unchanged, then additional servers only: each of them named in
\* additional_tool_servers and registered, every registered additional server
\* among them, and no server twice; the offered tools are those of the
\* offered servers; the chatbot's tool_servers stay as configured, so a
\* call without additional servers offers the configured servers only.
C25_AdditionalServersPerTurn ==
    /\ tool_servers = configured
    /\ offer.made =>
        /\ Len(offer.servers) >= Len(configured)
        /\ SubSeq(offer.servers, 1, Len(configured)) = configured
        /\ \A i \in (Len(configured) + 1)..Len(offer.servers) :
              /\ offer.servers[i] \in Range(offer.additional)
              /\ offer.servers[i] \in DOMAIN server_registry
        /\ \A s \in Range(offer.additional) :
              s \in DOMAIN server_registry => s \in Range(offer.servers)
        /\ NoServerTwice(offer.servers)
        /\ {a.server : a \in Range(offer.api_tools)} \subseteq Range(offer.servers)
        /\ offer.additional = <<>> => offer.servers = configured

C25_Witness ==
    /\ offer.made /\ offer.raised = ""
    /\ configured = <<Servers[1]>>
    /\ offer.additional = <<BuiltinTools[2], BuiltinTools[2]>>
    /\ offer.servers = <<Servers[1], BuiltinTools[2]>>
    /\ Len(offer.api_tools) > 1

\* C30: every identifier a chat call advertises is a key of the routing
\* table built at start-up, and a request for it is not rejected by the
\* router but reaches the server that listed the tool.
C30_AdvertisedIsCallable ==
    /\ \A i \in 1..Len(offer.api_tools) :
          offer.api_tools[i].name \in DOMAIN tool_registry
    /\ (offer.made /\ last_call.status # "none") =>
          /\ last_call.error # "ValueError"
          /\ \E i \in 1..Len(offer.api_tools) :
                /\ offer.api_tools[i].name = last_call.name
                /\ offer.api_tools[i].server = last_call.server

(***************************************************************************)
(* The rate limit of WebTools.web_search (agentkit/tools/web_tools.py).    *)
(*   SpecSearch  callers of web_search on one WebTools object, running     *)
(*               concurrently on the event loop, while time passes         *)
(* Time is counted in ticks, Resolution ticks to the second.               *)
(***************************************************************************)
Resolution == 2      \* ticks per second
MaxTime == 4         \* how many ticks the clock advances
MaxSearches == 3     \* largest number of searches started

\* rate_limit: queries per second (the default of WebTools.__init__).
DefaultRateLimit == 1

\* `self._min_interval = 1.0 / rate_limit if rate_limit else 0.0`, in ticks.
min_interval(rate_limit) ==
    IF rate_limit = 0 THEN 0 ELSE Resolution \div rate_limit

Idle == [at |-> "idle", wake |-> 0]

SearchInit ==
    /\ ChatInitValues
    /\ RouterInitValues
    /\ OtherInitValues("web")
    /\ web_now = min_interval(DefaultRateLimit)
    /\ last_request_time = 0
    /\ searchers = [c \in Conversations |-> Idle]
    /\ search_starts = <<>>

SearchUnchanged ==
    /\ UNCHANGED <<chatVars, rpc, component, behaviour, cur, stage, sessions,
                   server_registry, tool_registry, smol_tools, attempted,
                   last_init_error, last_call, exit_stack, lifeVars>>
    /\ OthersUnchanged("web")

\* Time passes.
Tick ==
    /\ web_now < min_interval(DefaultRateLimit) + MaxTime
    /\ web_now' = web_now + 1
    /\ UNCHANGED <<last_request_time, searchers, search_starts>>
    /\ SearchUnchanged

\* web_search is called and runs _enforce_rate_limit up to its first await:
\* with enough time elapsed it records the time and starts the search at
\* once, otherwise it goes to sleep for the rest of the interval.
SearchCalled(c) ==
    /\ searchers[c].at = "idle"
    /\ Len(search_starts) < MaxSearches
    /\ LET elapsed == web_now - last_request_time
       IN  IF elapsed < min_interval(DefaultRateLimit)
           THEN /\ searchers' =
                      [searchers EXCEPT ![c] =
                          [at |-> "sleeping",
                           wake |-> web_now + (min_interval(DefaultRateLimit) - elapsed)]]
                /\ UNCHANGED <<last_request_time, search_starts>>
           ELSE /\ last_request_time' = web_now
                /\ search_starts' = Append(search_starts, web_now)
                /\ UNCHANGED searchers
    /\ UNCHANGED web_now
    /\ SearchUnchanged

\* asyncio.sleep has ended (at its deadline or later): the time is recorded
\* and the search started.
SearchWakes(c) ==
    /\ searchers[c].at = "sleeping"
    /\ web_now >= searchers[c].wake
    /\ last_request_time' = web_now
    /\ search_starts' = Append(search_starts, web_now)
    /\ searchers' = [searchers EXCEPT ![c] = Idle]
    /\ UNCHANGED web_now
    /\ SearchUnchanged

SearchNext ==
    \/ Tick
    \/ \E c \in Conversations :
        \/ SearchCalled(c)
        \/ SearchWakes(c)

SpecSearch == SearchInit /\ [][SearchNext]_vars

\* C26: with a rate limit configured, any two search requests are started
\* at least 1 / rate_limit seconds apart, concurrent callers included.
C26_SearchesSpaced ==
    \A i, j \in 1..Len(search_starts) :
        i < j => search_starts[j] - search_starts[i] >= min_interval(DefaultRateLimit)

(***************************************************************************)
(* The pending files of a chat: uploads and files added from GitHub        *)
(* (agentkit/services/file_handler.py, the same code in chat_service.py,   *)
(* and the routes of agentkit/routes/chats.py).                            *)
(*   SpecFiles  uploads, additions from GitHub and removals on one chat    *)
(* A file name is a sequence of tokens; "/" and "_" are tokens.            *)
(***************************************************************************)
MaxFiles == 2        \* largest number of pending image files

\* The file names a user uploads, and the repository paths added.
UploadNames == {<<"src", "_", "a.py">>, <<"pic.png">>, <<"notes.txt">>}
GithubPaths == {<<"src", "/", "a.py">>, <<"pic.png">>}

\* f"{uploads_dir}/{file.filename}" (chats.py:361, 391)
file_location(filename) == <<"uploads", "/", "c1", "/">> \o filename

\* `github_path.replace("/", "_")` and f"{uploads_dir}/{safe_filename}"
local_path(github_path) ==
    <<"uploads", "/", "c1", "/">> \o
        [i \in 1..Len(github_path) |->
            IF github_path[i] = "/" THEN "_" ELSE github_path[i]]

RECURSIVE add_github_contents(_, _)
add_github_contents(contents, paths) ==
    IF paths = {} THEN contents
    ELSE LET p == CHOOSE q \in paths : TRUE
         IN  add_github_contents(Put(contents, local_path(p), "from github"),
                                 paths \ {p})

Without(f, keys) == [k \in DOMAIN f \ keys |-> f[k]]

FilesInit ==
    /\ ChatInitValues
    /\ RouterInitValues
    /\ OtherInitValues("file")
    /\ img_files = <<>>
    /\ file_contents = <<>>
    /\ github_files = {}
    /\ uploaded = {}
    /\ file_op = "none"

FilesUnchanged ==
    /\ UNCHANGED <<chatVars, rpc, component, behaviour, cur, stage, sessions,
                   server_registry, tool_registry, smol_tools, attempted,
                   last_init_error, last_call, exit_stack, lifeVars>>
    /\ OthersUnchanged("file")

\* upload_files (chats.py:361-370) and handle_file_upload: an image is
\* appended to _img_files, any other file's text is stored under its path.
UploadFile ==
    /\ \E filename \in UploadNames, image \in BOOLEAN :
        /\ image => Len(img_files) < MaxFiles
        /\ img_files' = IF image THEN Append(img_files, file_location(filename))
                        ELSE img_files
        /\ file_contents' = IF image THEN file_contents
                            ELSE Put(file_contents, file_location(filename), "uploaded")
        /\ uploaded' = uploaded \cup {file_location(filename)}
    /\ file_op' = "upload"
    /\ UNCHANGED github_files
    /\ FilesUnchanged

\* add_files_from_github: every fetched file is written under its local
\* path, stored in _file_contents and tracked in _github_files.
AddFilesFromGithub ==
    /\ \E paths \in SUBSET GithubPaths \ {{}} :
        /\ file_contents' = add_github_contents(file_contents, paths)
        /\ github_files' = github_files \cup {local_path(p) : p \in paths}
    /\ file_op' = "add_github"
    /\ UNCHANGED <<img_files, uploaded>>
    /\ FilesUnchanged

\* remove_github_files
RemoveGithubFiles ==
    /\ file_contents' = Without(file_contents, github_files)
    /\ img_files' = SelectSeq(img_files, LAMBDA f : f \notin github_files)
    /\ github_files' = {}
    /\ file_op' = "remove_github"
    /\ UNCHANGED uploaded
    /\ FilesUnchanged

\* remove_uploaded_file (chats.py:379-394): the path leaves _file_contents,
\* and _img_files loses its first occurrence.
RemoveUploadedFile ==
    /\ \E filename \in UploadNames :
        LET p == file_location(filename)
            k == FirstIndex(img_files, p)
        IN  /\ file_contents' = Without(file_contents, {p})
            /\ img_files' = IF k = 0 THEN img_files
                            ELSE SubSeq(img_files, 1, k - 1)
                                 \o SubSeq(img_files, k + 1, Len(img_files))
            /\ uploaded' = uploaded \ {p}
    /\ file_op' = "remove_uploaded"
    /\ UNCHANGED github_files
    /\ FilesUnchanged

FilesNext ==
    \/ UploadFile
    \/ AddFilesFromGithub
    \/ RemoveGithubFiles
    \/ RemoveUploadedFile

SpecFiles == FilesInit /\ [][FilesNext]_vars

InContext(p) == p \in DOMAIN file_contents \/ p \in Range(img_files)

\* C27: removing the GitHub files of a chat leaves every uploaded file
\* pending: a path the user uploaded (and did not remove) that is in the
\* pending context before remove_github_files is in it afterwards.
C27_RemoveGithubKeepsUploads ==
    [][file_op' = "remove_github" =>
          \A p \in uploaded : InContext(p) => InContext(p)']_vars

(***************************************************************************)
(* The chat service: send_message and retry_last_message on the stored     *)
(* history of one chat (agentkit/services/chat_service.py).                *)
(*   SpecService  messages sent and retried, with every outcome of         *)
(*                chatbot.chat                                             *)
(* A text is a sequence of tokens.                                         *)
(***************************************************************************)
MaxSaved == 4        \* largest number of messages saved for the chat

\* What the user writes: plain text, a mention of the skill "review" (which
\* the skill registry has) and a mention of a skill it does not have.
UserTexts == {<<"hi">>, <<"@review", "hi">>, <<"@nope", "hi">>}

\* _parse_mentions and _build_skill_context: the context of the mentioned
\* skills that exist, "" when there is none.
build_skill_context(text) ==
    IF \E i \in 1..Len(text) : text[i] = "@review"
    THEN <<"\n\n", "--- Skill @review ---", "\n", "review the code">>
    ELSE <<>>

\* str.strip on a skill context: the leading line breaks are dropped.
strip(text) ==
    IF Len(text) > 0 /\ text[1] \in {"\n\n", "\n"} THEN Tail(text) ELSE text

\* _to_openai (text messages), followed by lines 455-471 / 569-581: the
\* skill context is appended to a leading system / developer message or put
\* in front of the list as a system message of its own.
service_messages(rows, skill_context) ==
    LET msgs == [i \in 1..Len(rows) |-> Msg(rows[i].role, rows[i].content)]
    IN  IF skill_context = <<>> THEN msgs
        ELSE IF Len(msgs) > 0 /\ msgs[1].role \in {"system", "developer"}
        THEN <<[msgs[1] EXCEPT !.content = @ \o skill_context]>> \o Tail(msgs)
        ELSE <<Msg("system", strip(skill_context))>> \o msgs

\* db.get_last_assistant_message: the position of the stored assistant
\* message with the highest sequence number (0 when there is none); and
\* db.delete_message: the history without the row at position k.
last_assistant(rows) ==
    LET S == {i \in 1..Len(rows) : rows[i].role = "assistant"}
    IN  IF S = {} THEN 0 ELSE CHOOSE i \in S : \A j \in S : j <= i

delete_message(rows, k) == SubSeq(rows, 1, k - 1) \o SubSeq(rows, k + 1, Len(rows))

\* What chatbot.chat ends with: a response with choices, an error result,
\* a pending-approval result, a response without choices, or an exception.
ChatOutcomes == {"choices", "error", "pending_approval", "no_choices", "raises"}

\* Lines 476-509 / 587-615: the history after chat ended.
saved_after_chat(rows, id, outcome) ==
    IF outcome = "choices"
    THEN Append(rows, [id |-> id, role |-> "assistant", content |-> <<"answer">>])
    ELSE IF outcome = "error"
    THEN Append(rows, [id |-> id, role |-> "assistant", content |-> <<"Error">>])
    ELSE rows

ServiceInit ==
    /\ pc = "Idle"
    /\ construction = [by |-> "Chatbot", arg |-> Given(1)]
    /\ proposals = {}
    /\ system_prompt \in {"", "be brief"}
    /\ max_iterations = 1
    /\ messages = <<>>
    /\ iteration = 0
    /\ reply = NoReply
    /\ idx = 0
    /\ all_tool_calls = <<>>
    /\ result = NoResult
    /\ raised = ""
    /\ executed = <<>>
    /\ history = <<>>
    /\ RouterInitValues
    /\ OtherInitValues("service")
    /\ db_history = <<>>
    /\ saved_count = 0
    /\ sent = <<>>
    /\ to_model = <<>>
    /\ service_op = NoServiceOp

ServiceUnchanged ==
    /\ UNCHANGED <<chatVars, rpc, component, behaviour, cur, stage, sessions,
                   server_registry, tool_registry, smol_tools, attempted,
                   last_init_error, last_call, exit_stack, lifeVars>>
    /\ OthersUnchanged("service")

\* send_message: the user's message is saved, the history is sent to
\* chatbot.chat and the answer (or the error) is saved.
send_message(texts, outcomes) ==
    /\ saved_count + 2 <= MaxSaved
    /\ \E text \in texts, outcome \in outcomes :
        LET rows == Append(db_history,
                           [id |-> saved_count + 1, role |-> "user", content |-> text])
            skill_context == build_skill_context(text)
        IN  /\ sent' = service_messages(rows, skill_context)
            /\ to_model' = with_system_prompt(system_prompt, sent')
            /\ db_history' = saved_after_chat(rows, saved_count + 2, outcome)
            /\ service_op' = [op |-> "send", outcome |-> outcome,
                              skill |-> skill_context # <<>>,
                              sent_ids |-> [i \in 1..Len(rows) |-> rows[i].id]]
            /\ saved_count' = IF outcome \in {"choices", "error"}
                              THEN saved_count + 2 ELSE saved_count + 1

\* send_message on a chat without pending files.
SendMessage ==
    /\ send_message(UserTexts, ChatOutcomes)
    /\ ServiceUnchanged

\* retry_last_message: the last assistant message is deleted, the rest of
\* the history is sent to chatbot.chat and the answer (or the error) saved.
\* Without an assistant message, or without a user message left, it raises
\* ValueError (the assistant message stays deleted).
RetryLastMessage ==
    /\ saved_count + 1 <= MaxSaved
    /\ LET k == last_assistant(db_history)
           rows == delete_message(db_history, k)
           users == {i \in 1..Len(rows) : rows[i].role = "user"}
       IN  IF k = 0
           THEN /\ service_op' = [NoServiceOp EXCEPT !.op = "retry",
                                                     !.outcome = "ValueError"]
                /\ UNCHANGED <<db_history, sent, to_model, saved_count>>
           ELSE IF users = {}
           THEN /\ service_op' = [NoServiceOp EXCEPT !.op = "retry",
                                                     !.outcome = "ValueError"]
                /\ db_history' = rows
                /\ UNCHANGED <<sent, to_model, saved_count>>
           ELSE \E outcome \in ChatOutcomes :
                  LET last_user == CHOOSE i \in users : \A j \in users : j <= i
                      skill_context == build_skill_context(rows[last_user].content)
                  IN  /\ sent' = service_messages(rows, skill_context)
                      /\ to_model' = with_system_prompt(system_prompt, sent')
                      /\ db_history' = saved_after_chat(rows, saved_count + 1, outcome)
                      /\ service_op' = [op |-> "retry", outcome |-> outcome,
                                        skill |-> skill_context # <<>>,
                                        sent_ids |-> [i \in 1..Len(rows) |-> rows[i].id]]
                      /\ saved_count' = IF outcome \in {"choices", "error"}
                                        THEN saved_count + 1 ELSE saved_count
    /\ ServiceUnchanged

ServiceNext ==
    \/ SendMessage
    \/ RetryLastMessage

SpecService == ServiceInit /\ [][ServiceNext]_vars

\* C28: a retry that succeeds sends only messages stored before the
\* assistant response it deleted, and leaves a history that differs from
\* the one before only in that this response is replaced by the new one.
C28_RetryReplacesLastResponse ==
    [][(service_op'.op = "retry" /\ service_op'.outcome = "choices") =>
          LET k == last_assistant(db_history)
          IN  /\ \A i \in 1..Len(service_op'.sent_ids) :
                    \E j \in 1..(k - 1) : db_history[j].id = service_op'.sent_ids[i]
              /\ Len(db_history') = Len(db_history)
              /\ \A i \in 1..Len(db_history) :
                    IF i = k THEN db_history'[i].role = "assistant"
                    ELSE db_history'[i] = db_history[i]]_vars

\* C29: when the message sent mentions an existing skill and the chatbot
\* has a system prompt, the list that goes to the model holds both the
\* configured system prompt and the skill context.
C29_SkillContextAugmentsPrompt ==
    (service_op.op = "send" /\ service_op.skill /\ system_prompt # "") =>
        /\ \E i \in 1..Len(to_model) :
              to_model[i].role = "developer" /\ to_model[i].content = system_prompt
        /\ \E i \in 1..Len(to_model) :
              /\ to_model[i].role = "system"
              /\ \E j \in 1..Len(to_model[i].content) :
                    to_model[i].content[j] = "review the code"

\* C36: a send_message call that returned left the history longer by exactly
\* two messages, the user's message followed by an assistant message,
\* whatever the chatbot's result was.
C36_SendPersistsUserAndAssistant ==
    (service_op.op = "send" /\ service_op.outcome # "raises") =>
        LET n == Len(db_history)
        IN  /\ n = Len(service_op.sent_ids) + 1
            /\ db_history[n - 1].role = "user"
            /\ db_history[n - 1].id = service_op.sent_ids[n - 1]
            /\ db_history[n].role = "assistant"

(***************************************************************************)
(* Properties of the registries over start-up and shutdown (SpecStop)      *)
(***************************************************************************)
\* The value a component stores for an MCP server.
IsMCPServer(s) ==
    s \in DOMAIN server_registry /\ server_registry[s] = registry_value(component)

\* C31: in every state of the tool manager and of the MCP handler, every
\* identifier of the tool registry has its server part in the server
\* registry, and the servers registered as MCP servers are exactly the
\* servers with a session.
C31_RegistriesConsistent ==
    component \in {"ToolManager", "MCPToolHandler"} =>
        /\ \A k \in DOMAIN tool_registry :
              split_colon(k).ok /\ split_colon(k).server \in DOMAIN server_registry
        /\ \A s \in DOMAIN server_registry : IsMCPServer(s) => s \in sessions
        /\ \A s \in sessions : IsMCPServer(s)

\* Start-up ended with one server's initialization failed after it was
\* registered, another server's tools registered, and the built-in tools.
C31_Witness ==
    /\ component = "ToolManager"
    /\ rpc = "started"
    /\ last_init_error # ""
    /\ \E s \in sessions : KeysOf(tool_registry, s) = {}
    /\ \E s \in sessions : KeysOf(tool_registry, s) # {}
    /\ \E k \in DOMAIN tool_registry : split_colon(k).server \notin sessions

(***************************************************************************)
(* Requests to the tool manager before and after stop.                     *)
(*   SpecStopped  start-up and stop of the tool manager as in SpecStop,    *)
(*                with call_tool, list_tools and list_tool_servers         *)
(*                requests whenever no start or stop is running            *)
(***************************************************************************)
\* list_tool_servers: `list(self._server_registry.keys())`
list_tool_servers == DOMAIN server_registry

\* The tool manager as constructed; a server's initialization succeeds, or
\* fails before or after the server is registered.
StoppedInit ==
    /\ StopInit
    /\ component = "ToolManager"
    /\ behaviour \in [1..MaxServers -> ServeBehaviours]

\* One request to the tool manager, with the outcome of the backend when the
\* request reaches one.
Request ==
    /\ rpc \in {"started", "start_raised", "stopped"}
    /\ \/ \E name \in ServeNames : \E outcome \in BackendOutcomes(name) :
            request_log' = [op |-> "call_tool", r |-> call_tool(name, outcome),
                            servers |-> {}, after_stop |-> rpc = "stopped"]
       \/ \E server_name \in ListNames :
          \E outcome \in (IF list_tools(server_name, "ok").backend = <<>>
                          THEN {"ok"} ELSE {"ok", "timeout", "error"}) :
            request_log' = [op |-> "list_tools", r |-> list_tools(server_name, outcome),
                            servers |-> {}, after_stop |-> rpc = "stopped"]
       \/ request_log' = [op |-> "list_tool_servers",
                          r |-> [NoCall EXCEPT !.status = "returned"],
                          servers |-> list_tool_servers,
                          after_stop |-> rpc = "stopped"]
    /\ UNCHANGED <<chatVars, rpc, component, behaviour, cur, stage, sessions,
                   server_registry, tool_registry, smol_tools, attempted,
                   last_init_error, last_call, exit_stack, lifeVars>>
    /\ OthersUnchanged("stopped")

StoppedNext ==
    \/ StartBegins
    \/ Connect
    \/ EnterSession
    \/ Handshake
    \/ Discover
    \/ BuiltinsInit
    \/ StopBegins
    \/ ExitStackCloses
    \/ Request

SpecStopped == StoppedInit /\ [][StoppedNext]_vars

\* C32: a request made after stop has ended, however the teardown went,
\* reaches no tool: list_tool_servers gives the empty list, call_tool and
\* list_tools raise without a session or a built-in tool being invoked.
C32_NothingReachableAfterStop ==
    request_log.after_stop =>
        /\ request_log.op = "list_tool_servers" => request_log.servers = {}
        /\ request_log.op \in {"call_tool", "list_tools"} =>
              /\ request_log.r.status = "raised"
              /\ request_log.r.backend = <<>>

\* A request made after a stop whose teardown timed out or failed, on a
\* manager that had sessions, for a tool that was registered at start-up.
C32_Witness ==
    /\ request_log.after_stop
    /\ request_log.op = "call_tool"
    /\ stop_log.close \in {"timeout", "error"}
    /\ \E s \in Range(Servers) : Len(ToolsOf(s)) > 0
            /\ request_log.r.name = registry_key(s, ToolsOf(s)[1])
            /\ \E i \in 1..Len(attempted) : attempted[i] = s /\ behaviour[i] = "ok"

(***************************************************************************)
(* The list the caller of Chatbot.chat passed (chatbot.py:93-100).         *)
(*   SpecCaller  one run of Chatbot.chat as in Spec, with the content of   *)
(*               the caller's list at the call kept in `argument`          *)
(***************************************************************************)
CallerInit ==
    /\ pc = "Idle"
    /\ construction \in [by : {"Chatbot"}, arg : {Given(n) : n \in 1..MaxIterations}]
    /\ proposals = SeqsUpTo(ToolNames, MaxCalls)
    /\ system_prompt \in {"", "be brief"}
    /\ max_iterations = created_max_iterations(construction.by, construction.arg)
    /\ messages \in InitialTranscripts
    /\ iteration = 0
    /\ reply = NoReply
    /\ idx = 0
    /\ all_tool_calls = <<>>
    /\ result = NoResult
    /\ raised = ""
    /\ executed = <<>>
    /\ history = <<>>
    /\ RouterInitValues
    /\ OtherInitValues("caller")
    /\ argument = messages

SpecCaller == CallerInit /\ [][Next]_vars

\* `messages = [Developer(...)] + messages` (lines 94-100) binds the local
\* name to a new list; otherwise the local name is the caller's list.
rebinds(prompt, msgs) ==
    prompt # "" /\ (Len(msgs) = 0 \/ msgs[1].role # "system")

\* The caller's list: chat appends to it when the local name still is the
\* caller's list, and never touches it after the name was bound to a new one.
caller_messages ==
    IF pc = "Idle" \/ ~rebinds(system_prompt, argument) THEN messages ELSE argument

\* C33: when chat suspends for approval, the caller's list is what it was
\* before the model call that proposed the tools, and it holds, for every
\* tool call executed in an earlier round, the tool message with its result.
C33_SuspensionKeepsConversation ==
    pc = "PendingApproval" =>
        /\ \A i \in 1..Len(caller_messages) :
              caller_messages[i].role = "assistant" =>
                 caller_messages[i].tool_calls # reply.tool_calls
        /\ \A j \in 1..Len(executed) :
              \E i \in 1..Len(caller_messages) :
                 /\ caller_messages[i].role = "tool"
                 /\ caller_messages[i].tool_call_id = executed[j].id

(***************************************************************************)
(* The chat service manager (agentkit/services/manager.py).                *)
(*   SpecServices  create_service, get_service and remove_service in any   *)
(*                 order, on a database whose chats come and go            *)
(* A ChatService object is identified by the number of its construction.   *)
(***************************************************************************)
MaxInstances == 3    \* largest number of ChatService objects constructed

ChatIds == {"c1", "c2"}

\* The `model` of a configuration: "provider:model_id" with a provider the
\* registry has or has not, or the name of a chatbot it has or has not.
Models == {<<"openai", ":", "gpt">>, <<"nope", ":", "gpt">>,
           <<"Assistant">>, <<"Ghost">>}

\* ChatbotFactory.create_chatbot: "" when it returns a chatbot, otherwise
\* what the ValueError it raises is about.
create_chatbot(model) ==
    IF \E i \in 1..Len(model) : model[i] = ":"
    THEN IF SubSeq(model, 1, FirstIndex(model, ":") - 1) = <<"openai">>
         THEN "" ELSE "provider not found"
    ELSE IF model = <<"Assistant">> THEN "" ELSE "chatbot not found"

\* What a call on the manager leaves: how it ended, the object it returned
\* (0 when it raised), the services map and the chats of the database.
Left(outcome, returned, services, chats, made) ==
    [outcome |-> outcome, returned |-> returned, services |-> services,
     chats |-> chats, made |-> made]

\* A slip: the service is registered before the chat and the model are
\* looked up.
create_service_registers_first(chat_id, model, save) ==
    IF chat_id \in DOMAIN chat_services
    THEN Left("already exists", 0, chat_services, db_chats, 0)
    ELSE IF chat_id \notin DOMAIN db_chats
    THEN Left("chat not found", 0, Put(chat_services, chat_id, instances + 1),
              db_chats, 1)
    ELSE IF create_chatbot(model) # ""
    THEN Left(create_chatbot(model), 0, Put(chat_services, chat_id, instances + 1),
              db_chats, 1)
    ELSE IF save = "raises"
    THEN Left("save failed", 0, Put(chat_services, chat_id, instances + 1),
              db_chats, 1)
    ELSE Left("returned", instances + 1, Put(chat_services, chat_id, instances + 1),
              Put(db_chats, chat_id, model), 1)

\* ChatServiceManager.create_service; `save` is whether db.save_chat_config
\* returns or raises.
create_service(chat_id, model, save) ==
    IF chat_id \in DOMAIN chat_services
    THEN Left("already exists", 0, chat_services, db_chats, 0)
    ELSE IF chat_id \notin DOMAIN db_chats
    THEN Left("chat not found", 0, chat_services, db_chats, 0)
    ELSE IF create_chatbot(model) # ""
    THEN Left(create_chatbot(model), 0, chat_services, db_chats, 0)
    ELSE IF save = "raises"
    THEN Left("save failed", 0, Put(chat_services, chat_id, instances + 1),
              db_chats, 1)
    ELSE Left("returned", instances + 1, Put(chat_services, chat_id, instances + 1),
              Put(db_chats, chat_id, model), 1)

\* ChatServiceManager.get_service
get_service(chat_id, save) ==
    IF chat_id \in DOMAIN chat_services
    THEN Left("returned", chat_services[chat_id], chat_services, db_chats, 0)
    ELSE IF chat_id \notin DOMAIN db_chats
    THEN Left("chat not found", 0, chat_services, db_chats, 0)
    ELSE IF db_chats[chat_id] = <<>>
    THEN Left("invalid config", 0, chat_services, db_chats, 0)
    ELSE create_service(chat_id, db_chats[chat_id], save)

ServicesInit ==
    /\ ChatInitValues
    /\ RouterInitValues
    /\ OtherInitValues("manager")
    /\ db_chats = <<>>
    /\ chat_services = <<>>
    /\ instances = 0
    /\ got = [c \in ChatIds |-> 0]
    /\ manager_op = NoManagerOp

ServicesUnchanged ==
    /\ UNCHANGED <<chatVars, rpc, component, behaviour, cur, stage, sessions,
                   server_registry, tool_registry, smol_tools, attempted,
                   last_init_error, last_call, exit_stack, lifeVars>>
    /\ OthersUnchanged("manager")

Logged(op, chat_id, left) ==
    [op |-> op, chat_id |-> chat_id, outcome |-> left.outcome,
     returned |-> left.returned, before |-> chat_services,
     got_before |-> got[chat_id]]

\* db.create_chat: a chat appears in the database, without a configuration.
DbCreateChat(chat_id) ==
    /\ chat_id \notin DOMAIN db_chats
    /\ db_chats' = Put(db_chats, chat_id, <<>>)
    /\ manager_op' = [NoManagerOp EXCEPT !.op = "db", !.chat_id = chat_id]
    /\ UNCHANGED <<chat_services, instances, got>>
    /\ ServicesUnchanged

\* db.delete_chat
DbDeleteChat(chat_id) ==
    /\ chat_id \in DOMAIN db_chats
    /\ db_chats' = Without(db_chats, {chat_id})
    /\ manager_op' = [NoManagerOp EXCEPT !.op = "db", !.chat_id = chat_id]
    /\ UNCHANGED <<chat_services, instances, got>>
    /\ ServicesUnchanged

CreateService(chat_id) ==
    /\ instances < MaxInstances
    /\ \E model \in Models, save \in {"returns", "raises"} :
        LET left == create_service(chat_id, model, save)
        IN  /\ chat_services' = left.services
            /\ db_chats' = left.chats
            /\ instances' = instances + left.made
            /\ manager_op' = Logged("create_service", chat_id, left)
    /\ UNCHANGED got
    /\ ServicesUnchanged

GetService(chat_id) ==
    /\ instances < MaxInstances
    /\ \E save \in {"returns", "raises"} :
        LET left == get_service(chat_id, save)
        IN  /\ chat_services' = left.services
            /\ db_chats' = left.chats
            /\ instances' = instances + left.made
            /\ manager_op' = Logged("get_service", chat_id, left)
            /\ got' = IF left.outcome = "returned"
                      THEN [got EXCEPT ![chat_id] = left.returned] ELSE got
    /\ ServicesUnchanged

\* ChatServiceManager.remove_service
RemoveService(chat_id) ==
    /\ chat_services' = Without(chat_services, {chat_id})
    /\ got' = [got EXCEPT ![chat_id] = 0]
    /\ manager_op' = [NoManagerOp EXCEPT !.op = "remove_service",
                                         !.chat_id = chat_id,
                                         !.outcome = "returned",
                                         !.before = chat_services]
    /\ UNCHANGED <<db_chats, instances>>
    /\ ServicesUnchanged

ServicesNext ==
    \E chat_id \in ChatIds :
        \/ DbCreateChat(chat_id)
        \/ DbDeleteChat(chat_id)
        \/ CreateService(chat_id)
        \/ GetService(chat_id)
        \/ RemoveService(chat_id)

SpecServices == ServicesInit /\ [][ServicesNext]_vars

\* Why create_service did not go through, for the causes named: the chat,
\* the provider or the chatbot is unknown.
LookupFailures == {"chat not found", "provider not found", "chatbot not found"}

\* C34: create_service for an id that has a service raises and leaves the
\* map as it was; get_service returns the object it returned before for
\* that id, unless the service was removed in between; create_service that
\* fails on an unknown chat, provider or chatbot leaves no service for the
\* id.
C34_OneServicePerChat ==
    /\ (manager_op.op = "create_service" /\ manager_op.chat_id \in DOMAIN manager_op.before)
          => /\ manager_op.outcome = "already exists"
             /\ chat_services = manager_op.before
    /\ (manager_op.op = "get_service" /\ manager_op.got_before # 0)
          => /\ manager_op.outcome = "returned"
             /\ manager_op.returned = manager_op.got_before
    /\ (manager_op.op = "create_service" /\ manager_op.outcome \in LookupFailures)
          => manager_op.chat_id \notin DOMAIN chat_services

\* create_service failed on an unknown provider or chatbot for a chat of the
\* database, after services were created, got and removed.
C34_Witness ==
    /\ manager_op.op = "create_service"
    /\ manager_op.outcome \in {"provider not found", "chatbot not found"}
    /\ manager_op.chat_id \in DOMAIN db_chats
    /\ instances >= 2
    /\ \E c \in ChatIds : got[c] # 0 /\ c \in DOMAIN chat_services

(***************************************************************************)
(* Pending files and the messages they are attached to.                    *)
(*   SpecAttach  uploads, GitHub additions and removals as in SpecFiles,   *)
(*               and send_message on the chat's pending files              *)
(***************************************************************************)
\* A slip: the images stay pending after a message was sent.
clear_text_files_only(imgs, contents, github) ==
    [img_files |-> imgs, file_contents |-> <<>>, github_files |-> {}]

\* Lines 440-442 (FileHandler.clear_pending_files): the pending sets after
\* the attachments were saved.
clear_pending_files(imgs, contents, github) ==
    [img_files |-> <<>>, file_contents |-> <<>>, github_files |-> {}]

\* Lines 420-437 (FileHandler.save_attachments_to_db): one row per key of
\* _file_contents and one per entry of _img_files; the paths of the rows.
save_attachments(imgs, contents) == DOMAIN contents \cup Range(imgs)

AttachInit ==
    /\ ServiceInit
    /\ attachments = <<>>

\* send_message with the chat's pending files: the user's message is saved,
\* the pending files are recorded as its attachments and the pending sets
\* are cleared; then the history goes to the chatbot as in SendMessage
\* (here the chatbot answers).
SendMessageWithFiles ==
    /\ send_message({<<"hi">>}, {"choices"})
    /\ attachments' = Put(attachments, saved_count + 1,
                          save_attachments(img_files, file_contents))
    /\ LET cleared == clear_pending_files(img_files, file_contents, github_files)
       IN  /\ img_files' = cleared.img_files
           /\ file_contents' = cleared.file_contents
           /\ github_files' = cleared.github_files
    /\ uploaded' = {}
    /\ file_op' = "send"
    /\ UNCHANGED <<chatVars, rpc, component, behaviour, cur, stage, sessions,
                   server_registry, tool_registry, smol_tools, attempted,
                   last_init_error, last_call, exit_stack, lifeVars>>
    /\ OthersUnchanged("attach")

\* Files are followed for as long as a message can still be sent.
AttachNext ==
    \/ saved_count + 2 <= MaxSaved /\ UploadFile
    \/ saved_count + 2 <= MaxSaved /\ AddFilesFromGithub
    \/ saved_count + 2 <= MaxSaved /\ RemoveGithubFiles
    \/ saved_count + 2 <= MaxSaved /\ RemoveUploadedFile
    \/ SendMessageWithFiles

SpecAttach == AttachInit /\ [][AttachNext]_vars

\* C35: send_message attaches to the message it saves every file that was
\* uploaded and not removed since the last message, and nothing but files
\* uploaded or added from GitHub since then; it leaves the attachments of
\* earlier messages as they were, and leaves nothing pending.
C35_PendingFilesAttachedOnce ==
    [][file_op' = "send" =>
          LET id == saved_count + 1
          IN  /\ id \notin DOMAIN attachments
              /\ id \in DOMAIN attachments'
              /\ uploaded \subseteq attachments'[id]
              /\ attachments'[id] \subseteq uploaded \cup github_files
              /\ \A m \in DOMAIN attachments : attachments'[m] = attachments[m]
              /\ img_files' = <<>>
              /\ file_contents' = <<>>
              /\ github_files' = {}]_vars

(***************************************************************************)
(* Shutdown of the main entry point (agentkit/main.py).                    *)
(*   SpecMain  the server runs inside try / finally; SIGINT and SIGTERM    *)
(*             are delivered between any two steps of the main thread and  *)
(*             run signal_handler on top of whatever was running           *)
(***************************************************************************)
MaxSignals == 2      \* largest number of signals delivered to the process

Signums == {"SIGINT", "SIGTERM"}

\* A call of cleanup or of signal_handler, and where it is.
Frame(fn, at) == [fn |-> fn, at |-> at]

Top == frames[Len(frames)]
Pop == SubSeq(frames, 1, Len(frames) - 1)
At(fn, at) == Len(frames) > 0 /\ Top = Frame(fn, at)
Goto(at) == [frames EXCEPT ![Len(frames)].at = at]

MainInit ==
    /\ ChatInitValues
    /\ RouterInitValues
    /\ OtherInitValues("main")
    /\ main_pc = "serve"
    /\ frames = <<>>
    /\ cleanup_state = FALSE
    /\ db_close = NotBegun
    /\ mcp_close = NotBegun
    /\ signals = <<>>

MainUnchanged ==
    /\ UNCHANGED <<chatVars, rpc, component, behaviour, cur, stage, sessions,
                   server_registry, tool_registry, smol_tools, attempted,
                   last_init_error, last_call, exit_stack, lifeVars>>
    /\ OthersUnchanged("main")

\* sys.exit(0) in signal_handler raises SystemExit: no call above the main
\* module catches it, so all of them are left; the main module, when it is
\* inside the try, goes on to its finally clause (which calls cleanup), and
\* when it already is in the finally clause, is left as well.
sys_exit(at, stack) ==
    IF at = "serve"
    THEN [main_pc |-> "finally", frames |-> <<Frame("cleanup", "check")>>]
    ELSE [main_pc |-> "exited", frames |-> <<>>]

\* A signal is delivered: signal_handler runs on top of what is running.
SignalArrives ==
    /\ main_pc # "exited"
    /\ Len(signals) < MaxSignals
    /\ \E signum \in Signums : signals' = Append(signals, signum)
    /\ frames' = Append(frames, Frame("signal_handler", "cleanup"))
    /\ UNCHANGED <<main_pc, cleanup_state, db_close, mcp_close>>
    /\ MainUnchanged

\* uvicorn.run returns: the finally clause calls cleanup.
ServerReturns ==
    /\ main_pc = "serve" /\ frames = <<>>
    /\ main_pc' = "finally"
    /\ frames' = <<Frame("cleanup", "check")>>
    /\ UNCHANGED <<cleanup_state, db_close, mcp_close, signals>>
    /\ MainUnchanged

\* cleanup, lines 36-38: return when done, else set done.
CleanupChecks ==
    /\ At("cleanup", "check")
    /\ IF cleanup_state
       THEN frames' = Pop /\ UNCHANGED cleanup_state
       ELSE frames' = Goto("close_db") /\ cleanup_state' = TRUE
    /\ UNCHANGED <<main_pc, db_close, mcp_close, signals>>
    /\ MainUnchanged

\* cleanup, line 40: database.close() is entered, and later returns.
DatabaseCloseBegins ==
    /\ At("cleanup", "close_db")
    /\ db_close' = [db_close EXCEPT !.begun = @ + 1]
    /\ frames' = Goto("closing_db")
    /\ UNCHANGED <<main_pc, cleanup_state, mcp_close, signals>>
    /\ MainUnchanged

DatabaseCloseReturns ==
    /\ At("cleanup", "closing_db")
    /\ db_close' = [db_close EXCEPT !.completed = @ + 1]
    /\ frames' = Goto("close_all")
    /\ UNCHANGED <<main_pc, cleanup_state, mcp_close, signals>>
    /\ MainUnchanged

\* cleanup, line 41: mcp_manager.close_all() is entered, and later returns;
\* cleanup returns with it.
CloseAllBegins ==
    /\ At("cleanup", "close_all")
    /\ mcp_close' = [mcp_close EXCEPT !.begun = @ + 1]
    /\ frames' = Goto("closing_all")
    /\ UNCHANGED <<main_pc, cleanup_state, db_close, signals>>
    /\ MainUnchanged

CloseAllReturns ==
    /\ At("cleanup", "closing_all")
    /\ mcp_close' = [mcp_close EXCEPT !.completed = @ + 1]
    /\ frames' = Pop
    /\ UNCHANGED <<main_pc, cleanup_state, db_close, signals>>
    /\ MainUnchanged

\* signal_handler, line 45: cleanup is called.
HandlerCallsCleanup ==
    /\ At("signal_handler", "cleanup")
    /\ frames' = Append(Goto("sys_exit"), Frame("cleanup", "check"))
    /\ UNCHANGED <<main_pc, cleanup_state, db_close, mcp_close, signals>>
    /\ MainUnchanged

\* signal_handler, line 46: sys.exit(0).
HandlerExits ==
    /\ At("signal_handler", "sys_exit")
    /\ main_pc' = sys_exit(main_pc, frames).main_pc
    /\ frames' = sys_exit(main_pc, frames).frames
    /\ UNCHANGED <<cleanup_state, db_close, mcp_close, signals>>
    /\ MainUnchanged

\* The finally clause is done: the process exits.
ProcessExits ==
    /\ main_pc = "finally" /\ frames = <<>>
    /\ main_pc' = "exited"
    /\ UNCHANGED <<frames, cleanup_state, db_close, mcp_close, signals>>
    /\ MainUnchanged

MainNext ==
    \/ SignalArrives
    \/ ServerReturns
    \/ CleanupChecks
    \/ DatabaseCloseBegins
    \/ DatabaseCloseReturns
    \/ CloseAllBegins
    \/ CloseAllReturns
    \/ HandlerCallsCleanup
    \/ HandlerExits
    \/ ProcessExits

SpecMain == MainInit /\ [][MainNext]_vars

\* C37: when the process has exited, on whatever path, the database close
\* and the disconnect of the MCP clients were each begun once and completed.
C37_CleanupCompletesOnce ==
    main_pc = "exited" =>
        /\ db_close = [begun |-> 1, completed |-> 1]
        /\ mcp_close = [begun |-> 1, completed |-> 1]

(***************************************************************************)
(* The server's lifespan (agentkit/server.py).                             *)
(*   SpecLifespan  start-up, the yield to the application, and shutdown;   *)
(*                 every call on a resource returns or raises              *)
(***************************************************************************)
MaxRequests == 3     \* largest number of requests served before shutdown

CallOutcomes == {"returns", "raises"}

\* ToolManager(data_dir, tools_dir, mcps, mcp_timeout): the constructor that
\* lifespan was written for takes these four arguments and returns; one that
\* takes other arguments raises TypeError.
ConstructOutcomes == {"returns", "raises"}

\* ToolManager.start: failures of single servers are logged, a failure of
\* the built-in tools is raised.
StartOutcomes == {"started", "start_raised"}

\* ToolManager.stop as lifespan sees it: it raises what is left to raise
\* after the exit stack was awaited.
stop_outcome(teardown) ==
    IF raised_after_aclose(teardown) = "" THEN "returns" ELSE "raises"

Called(step, outcome) == [step |-> step, outcome |-> outcome]

LifespanInit ==
    /\ ChatInitValues
    /\ RouterInitValues
    /\ OtherInitValues("lifespan")
    /\ lifespan_pc = "database"
    /\ github_client = FALSE
    /\ lifespan_log = <<>>
    /\ served = 0

LifespanUnchanged ==
    /\ UNCHANGED <<chatVars, rpc, component, behaviour, cur, stage, sessions,
                   server_registry, tool_registry, smol_tools, attempted,
                   last_init_error, last_call, exit_stack, lifeVars>>
    /\ OthersUnchanged("lifespan")

\* A slip: an exception of a shutdown step leaves lifespan.
shutdown_step_propagates(step, outcome) ==
    IF outcome = "raises" THEN "aborted"
    ELSE IF step = "github_client.close" THEN "stop_tool_manager"
    ELSE IF step = "tool_manager.stop" THEN "close_database"
    ELSE "complete"

\* Where lifespan goes on after a shutdown step: each step is in a try of
\* its own whose except clause only logs.
after_shutdown_step(step, outcome) ==
    IF step = "github_client.close" THEN "stop_tool_manager"
    ELSE IF step = "tool_manager.stop" THEN "close_database"
    ELSE "complete"

\* Lines 28-36: the database is opened, the provider registry is built.
OpenDatabase ==
    /\ lifespan_pc = "database"
    /\ lifespan_log' = Append(lifespan_log, Called("Database", "returns"))
    /\ lifespan_pc' = "tool_manager"
    /\ UNCHANGED <<github_client, served>>
    /\ LifespanUnchanged

\* Lines 38-52: the tool manager is constructed and started; when that
\* raises, the database is closed and the exception is raised again.
StartToolManager ==
    /\ lifespan_pc = "tool_manager"
    /\ \E constructed \in ConstructOutcomes, outcome \in StartOutcomes :
          IF constructed = "returns" /\ outcome = "started"
          THEN /\ lifespan_log' = Append(lifespan_log,
                                         Called("tool_manager.start", "returns"))
               /\ lifespan_pc' = "github"
          ELSE \E closed \in CallOutcomes :
                  /\ lifespan_log' = lifespan_log \o
                         <<IF constructed = "raises"
                           THEN Called("ToolManager", "raises")
                           ELSE Called("tool_manager.start", "raises"),
                           Called("database.close", closed)>>
                  /\ lifespan_pc' = "aborted"
    /\ UNCHANGED <<github_client, served>>
    /\ LifespanUnchanged

\* Lines 54-70: the chatbot registry is built; with a token configured the
\* GitHub client is constructed, and when that raises, no client is held.
CreateGithubClient ==
    /\ lifespan_pc = "github"
    /\ \E token \in BOOLEAN, constructed \in CallOutcomes :
          IF token /\ constructed = "returns"
          THEN /\ lifespan_pc' = "authenticate"
               /\ github_client' = TRUE
               /\ lifespan_log' = Append(lifespan_log,
                                         Called("GitHubClient", "returns"))
          ELSE /\ lifespan_pc' = "yield"
               /\ github_client' = FALSE
               /\ lifespan_log' =
                      IF token
                      THEN Append(lifespan_log, Called("GitHubClient", "raises"))
                      ELSE lifespan_log
    /\ UNCHANGED served
    /\ LifespanUnchanged

\* Lines 70-76: authenticate returns True or False (it raises nothing).
Authenticate ==
    /\ lifespan_pc = "authenticate"
    /\ \E authenticated \in BOOLEAN :
          /\ lifespan_pc' = IF authenticated THEN "yield"
                             ELSE "close_unauthenticated"
          /\ lifespan_log' = Append(lifespan_log,
                 Called("authenticate", IF authenticated THEN "True" ELSE "False"))
    /\ UNCHANGED <<github_client, served>>
    /\ LifespanUnchanged

\* Lines 75-78: the client that failed to authenticate is closed.
CloseUnauthenticated ==
    /\ lifespan_pc = "close_unauthenticated"
    /\ \E closed \in CallOutcomes :
          /\ lifespan_log' = Append(lifespan_log,
                                    Called("github_client.close", closed))
          /\ IF closed = "returns"
             THEN lifespan_pc' = "yield" /\ github_client' = FALSE
             ELSE lifespan_pc' = "close_after_error" /\ UNCHANGED github_client
    /\ UNCHANGED served
    /\ LifespanUnchanged

\* Lines 77-81: the except clause closes the client once more; nothing
\* catches what this close raises.
CloseAfterError ==
    /\ lifespan_pc = "close_after_error"
    /\ \E closed \in CallOutcomes :
          /\ lifespan_log' = Append(lifespan_log,
                                    Called("github_client.close", closed))
          /\ lifespan_pc' = IF closed = "returns" THEN "yield" ELSE "aborted"
    /\ github_client' = FALSE
    /\ UNCHANGED served
    /\ LifespanUnchanged

\* Lines 85-98: the chat service manager is built and the application
\* serves a request.
Serve ==
    /\ lifespan_pc = "yield"
    /\ served < MaxRequests
    /\ served' = served + 1
    /\ UNCHANGED <<lifespan_pc, github_client, lifespan_log>>
    /\ LifespanUnchanged

\* Lines 98-103: the application is done and shutdown begins.
ServerShutsDown ==
    /\ lifespan_pc = "yield"
    /\ lifespan_log' = Append(lifespan_log,
           Called("yield", IF github_client THEN "github" ELSE "no github"))
    /\ lifespan_pc' = IF github_client THEN "close_github" ELSE "stop_tool_manager"
    /\ UNCHANGED <<github_client, served>>
    /\ LifespanUnchanged

\* Lines 103-107
ShutdownGithub ==
    /\ lifespan_pc = "close_github"
    /\ \E closed \in CallOutcomes :
          /\ lifespan_log' = Append(lifespan_log,
                                    Called("github_client.close", closed))
          /\ lifespan_pc' = after_shutdown_step("github_client.close", closed)
    /\ UNCHANGED <<github_client, served>>
    /\ LifespanUnchanged

\* Lines 109-112
ShutdownToolManager ==
    /\ lifespan_pc = "stop_tool_manager"
    /\ \E b \in {"closes", "raises", "hangs"} :
          LET stopped == stop_outcome(wait_for_aclose(b))
          IN  /\ lifespan_log' = Append(lifespan_log,
                                        Called("tool_manager.stop", stopped))
              /\ lifespan_pc' = after_shutdown_step("tool_manager.stop", stopped)
    /\ UNCHANGED <<github_client, served>>
    /\ LifespanUnchanged

\* Lines 114-119
ShutdownDatabase ==
    /\ lifespan_pc = "close_database"
    /\ \E closed \in CallOutcomes :
          /\ lifespan_log' = Append(lifespan_log, Called("database.close", closed))
          /\ lifespan_pc' = after_shutdown_step("database.close", closed)
    /\ UNCHANGED <<github_client, served>>
    /\ LifespanUnchanged

LifespanNext ==
    \/ OpenDatabase
    \/ StartToolManager
    \/ CreateGithubClient
    \/ Authenticate
    \/ CloseUnauthenticated
    \/ CloseAfterError
    \/ Serve
    \/ ServerShutsDown
    \/ ShutdownGithub
    \/ ShutdownToolManager
    \/ ShutdownDatabase

SpecLifespan == LifespanInit /\ [][LifespanNext]_vars

\* The steps lifespan has called, in order.
RECURSIVE step_names(_)
step_names(log) ==
    IF Len(log) = 0 THEN <<>> ELSE <<Head(log).step>> \o step_names(Tail(log))

\* The place of the yield in the log, 0 when the application never served.
YieldAt ==
    IF \E i \in DOMAIN lifespan_log : lifespan_log[i].step = "yield"
    THEN CHOOSE i \in DOMAIN lifespan_log : lifespan_log[i].step = "yield"
    ELSE 0

StartFailed ==
    \E i \in DOMAIN lifespan_log :
        lifespan_log[i] \in {Called("ToolManager", "raises"),
                            Called("tool_manager.start", "raises")}

====
